---- MODULE Spec2Model ----
(***************************************************************************)
(* Model of mcp-tools-server: the SSE broadcast manager                    *)
(* (internal/server/sse_manager.go), the JSON-RPC processor                *)
(* (internal/server/jsonrpc_processor.go), the tool directory              *)
(* (internal/server/tool_service.go) and the stdio message loop            *)
(* (internal/server/mcp_server.go).                                        *)
(***************************************************************************)
EXTENDS Integers, Sequences, FiniteSets, TLC

\* ---------------------------------------------------------------------
\* Bounds of the model
\* ---------------------------------------------------------------------
\* number of client identifiers uuid.NewString can hand out in one run
MaxClients == 2
\* capacity of a client's mailbox in the specifications that explore the
\* interleavings of the manager: the 256 of the code scaled down; an action
\* compares a mailbox with the capacity it was made with only
MailboxCap == 2
\* the capacity the code gives a mailbox: make(chan []byte, 256)
ClientSendCap == 256
\* number of goroutines calling Send concurrently
NumSenders == 1
\* number of messages the stdio loop decodes after the initialize exchange
MaxLoopMsgs == 2
\* number of requests the HTTP server is sent, and of tool results
\* given to normalizeToolResult
MaxRequests == 2

ClientIds == 1..MaxClients
\* message payloads: the manager copies the []byte it is given and never
\* reads it, one payload value stands for all of them
Msgs == {"msg"}
Senders == 1..NumSenders

VARIABLES
  \* ---- SSEManager ----
  used,       \* identifiers uuid.NewString has already returned
  clients,    \* keys of SSEManager.clients
  isAlive,    \* Client.isAlive of every client object ever created
  send,       \* buffer of Client.send of every client object
  closed,     \* whether Client.send has been closed
  chanCap,    \* cap(client.send): the capacity the channel was made with
  closeCount, \* how many times close(client.send) ran on the channel
  rmLast,     \* what the latest RemoveClient call found: "none", "removed", "absent"
  panicked,   \* a goroutine panicked (close of closed channel, send on closed channel)
  bcPc,       \* Broadcast: "idle" or "iter" (holding mu.RLock, ranging over clients)
  bcMsg,      \* Broadcast: the message
  bcTodo,     \* Broadcast: clients the range loop has not visited yet
  bcSent,     \* Broadcast: clients whose select took the send case
  bcSkipped,  \* Broadcast: clients whose select took the default case
  sPc,        \* Send: "idle", "found" (after the lookup), "sending" (in the select)
  sId,        \* Send: clientID argument
  sMsg,       \* Send: message argument
  sRes,       \* Send: outcome of the last call
  \* ---- stdio MCPServer ----
  pc,         \* Start: "start", "select", "decode", "stopped"
  out,        \* responses written to stdout, in order
  nLoop,      \* messages decoded by the main loop
  cancelled,  \* ctx.Done() is closed
  lastStep,   \* what Start did last: "none", "init", "handle", "decodefail", "ctxdone"
  lastMsg,    \* the message handled last
  lastOut,    \* what handling lastMsg wrote (empty or one response)
  lastErr,    \* the error handleMessage / Start returned for lastMsg
  execLog,    \* tools whose Execute ran, in order
  tools,      \* keys of ToolService.tools, the map the processor reads
  lastToolErr, \* the error tool.Execute returned while lastMsg was handled
  outReq,     \* for each response of out, the number of the message it
              \* answers: 0 for the initialize message, k for the k-th of the loop
  \* ---- combined Server and main ----
  srvPc,      \* Server.Start: "init" (not called), "wait" (in its select), "returned"
  srv,        \* the HTTP, streamable and WebSocket servers: "idle", "starting",
              \* "serving", "failed", "stopped"
  errChan,    \* buffer of errChan: who sent, and whether the value is an error
  mcpSent,    \* the stdio goroutine has sent the result of MCPServer.Start
  srvCause,   \* what the select of Server.Start received
  exit,       \* the process: "none" (running), "0", "1" (exit status)
  \* ---- one WebSocket connection ----
  wsPc,       \* handleWebSocket: "idle" (not called), "read" (in wsjson.Read),
              \* "closed" (returned)
  wsN,        \* requests read from the connection
  wsOut,      \* frames written to the connection, each with the number of
              \* the request it answers
  wsEnd,      \* why handleWebSocket returned: "none" (it has not),
              \* "accept_failed", "peer_closed", "transport_error",
              \* "deadline" (the handler's own 10 s context), "write_failed"
  \* ---- readers of the mailboxes ----
  rcv,        \* for each client, what the latest receive from its mailbox
              \* returned: the value, ok, and whether a receive took place
  \* ---- event-stream tasks ----
  esPc,       \* the task serving a client's event stream: "none" (no stream
              \* opened), "wait" (waiting for a message or the disconnect),
              \* "teardown" (about to call RemoveClient), "gone" (returned)
  disc,       \* the client's connection has ended
  \* ---- the stdio loop seen from its caller ----
  cancelAt,   \* the value of nLoop when ctx was cancelled, -1 before
  \* ---- one call of Server.shutdown ----
  sdPc,       \* "idle" (not called), then the server whose Stop comes next:
              \* "http", "streamable", "websocket", then "returned"
  sdPresent,  \* the servers the Server was built with (the non-nil fields)
  sdStarted,  \* those of them whose Start has run
  sdCalled,   \* the servers whose Stop has been called, in order
  sdFailed,   \* the servers whose Stop has returned an error
  sdErr,      \* shutdownError
  \* ---- SecurityManager ----
  sm,         \* the SecurityManager: its allowedOrigins and enableOriginCheck,
              \* made says whether NewSecurityManager has run
  smLast,     \* the last request through OriginCheckMiddleware: its Origin
              \* header, the status the middleware wrote (0: none) and
              \* whether the wrapped handler was invoked
  \* ---- normalizeToolResult ----
  normLog,    \* the calls of normalizeToolResult: the value given, what
              \* was returned
  \* ---- HTTPServer ----
  httpLog     \* the requests served, in order: path, method, the status and
              \* body the ResponseWriter got, the error of ExecuteTool, the
              \* tools executed, whether ListTools was called

sseVars == <<used, clients, isAlive, send, closed, chanCap, closeCount, rmLast, panicked,
             bcPc, bcMsg, bcTodo, bcSent, bcSkipped, sPc, sId, sMsg, sRes>>
rpcVars == <<pc, out, nLoop, cancelled, lastStep, lastMsg, lastOut, lastErr, execLog, tools,
             lastToolErr, outReq>>
vars == <<used, clients, isAlive, send, closed, chanCap, closeCount, rmLast, panicked,
          bcPc, bcMsg, bcTodo, bcSent, bcSkipped, sPc, sId, sMsg, sRes,
          pc, out, nLoop, cancelled, lastStep, lastMsg, lastOut, lastErr, execLog, tools,
          lastToolErr, outReq,
          srvPc, srv, errChan, mcpSent, srvCause, exit,
          wsPc, wsN, wsOut, wsEnd, rcv, esPc, disc, cancelAt, httpLog,
          sdPc, sdPresent, sdStarted, sdCalled, sdFailed, sdErr, sm, smLast,
          normLog>>
wsVars == <<wsPc, wsN, wsOut, wsEnd>>
pushVars == <<rcv>>
esVars == <<esPc, disc>>
lingerVars == <<cancelAt>>
httpVars == <<httpLog>>
sdVars == <<sdPc, sdPresent, sdStarted, sdCalled, sdFailed, sdErr>>
smVars == <<sm, smLast>>
normVars == <<normLog>>
srvVars == <<srvPc, srv, errChan, mcpSent, srvCause, exit>>

\* ---------------------------------------------------------------------
\* SSEManager (internal/server/sse_manager.go)
\* ---------------------------------------------------------------------
NoMsg == "none"

\* the elements of a sequence
Range(q) == {q[i] : i \in DOMAIN q}

\* NewSSEManager: an empty clients map
SSEInit ==
  /\ used = {}
  /\ clients = {}
  /\ isAlive = [c \in ClientIds |-> FALSE]
  /\ send = [c \in ClientIds |-> <<>>]
  /\ closed = [c \in ClientIds |-> FALSE]
  /\ chanCap = [c \in ClientIds |-> 0]
  /\ closeCount = [c \in ClientIds |-> 0]
  /\ rmLast = "none"
  /\ panicked = FALSE
  /\ bcPc = "idle"
  /\ bcMsg = NoMsg
  /\ bcTodo = {}
  /\ bcSent = {}
  /\ bcSkipped = {}
  /\ sPc = [s \in Senders |-> "idle"]
  /\ sId = [s \in Senders |-> 1]
  /\ sMsg = [s \in Senders |-> NoMsg]
  /\ sRes = [s \in Senders |-> "none"]

\* a mutex whose Lock() does not wait for the readers
WriteLockIgnored == TRUE

\* mu.Lock() succeeds only when no goroutine holds mu.RLock(); Broadcast is
\* the one reader that keeps the read lock across steps
WriteLockFree == bcPc = "idle"

\* uuid.NewString(): an identifier no earlier call returned; identifiers are
\* opaque, the model hands them out in increasing order
NewString == Cardinality(used) + 1

\* AddClient that forgets isAlive: true in the Client literal
AddClientNotAlive(id, size) ==
  /\ ~panicked
  /\ bcPc = "idle"
  /\ id = Cardinality(used) + 1
  /\ used' = used \cup {id}
  /\ isAlive' = [isAlive EXCEPT ![id] = FALSE]
  /\ send' = [send EXCEPT ![id] = <<>>]
  /\ closed' = [closed EXCEPT ![id] = FALSE]
  /\ chanCap' = [chanCap EXCEPT ![id] = size]
  /\ clients' = clients \cup {id}
  /\ UNCHANGED <<closeCount, rmLast, panicked, bcPc, bcMsg, bcTodo, bcSent,
                 bcSkipped, sPc, sId, sMsg, sRes>>

\* AddClient with an unbuffered channel: make(chan []byte)
AddClientUnbuffered(id, size) ==
  /\ ~panicked
  /\ WriteLockFree
  /\ id = NewString
  /\ used' = used \cup {id}
  /\ isAlive' = [isAlive EXCEPT ![id] = TRUE]
  /\ send' = [send EXCEPT ![id] = <<>>]
  /\ closed' = [closed EXCEPT ![id] = FALSE]
  /\ chanCap' = [chanCap EXCEPT ![id] = 0]
  /\ clients' = clients \cup {id}
  /\ UNCHANGED <<closeCount, rmLast, panicked, bcPc, bcMsg, bcTodo, bcSent,
                 bcSkipped, sPc, sId, sMsg, sRes>>

\* AddClient: runs under mu.Lock(); id is the value of uuid.NewString(),
\* size the capacity given to make(chan []byte, 256)
AddClient(id, size) ==
  /\ ~panicked
  /\ WriteLockFree
  /\ id = NewString
  /\ used' = used \cup {id}
  /\ isAlive' = [isAlive EXCEPT ![id] = TRUE]
  /\ send' = [send EXCEPT ![id] = <<>>]
  /\ closed' = [closed EXCEPT ![id] = FALSE]
  /\ chanCap' = [chanCap EXCEPT ![id] = size]
  /\ clients' = clients \cup {id}
  /\ UNCHANGED <<closeCount, rmLast, panicked, bcPc, bcMsg, bcTodo, bcSent,
                 bcSkipped, sPc, sId, sMsg, sRes>>

\* close(client.send): closing a closed channel panics
CloseChan(id) ==
  /\ closeCount' = [closeCount EXCEPT ![id] = @ + 1]
  /\ closed' = [closed EXCEPT ![id] = TRUE]
  /\ panicked' = closed[id]

\* RemoveClient that forgets delete(m.clients, id)
RemoveClientNoDelete(id) ==
  /\ ~panicked
  /\ WriteLockFree
  /\ id \in ClientIds
  /\ IF id \in clients
       THEN /\ isAlive' = [isAlive EXCEPT ![id] = FALSE]
            /\ CloseChan(id)
            /\ rmLast' = "removed"
            /\ UNCHANGED clients
       ELSE /\ rmLast' = "absent"
            /\ UNCHANGED <<isAlive, closed, closeCount, panicked, clients>>
  /\ UNCHANGED <<chanCap, used, send, bcPc, bcMsg, bcTodo, bcSent, bcSkipped,
                 sPc, sId, sMsg, sRes>>

\* RemoveClient that closes the channel and does nothing else: the entry
\* stays in the map with its flag set
RemoveClientCloseOnly(id) ==
  /\ ~panicked
  /\ WriteLockFree
  /\ id \in ClientIds
  /\ IF id \in clients
       THEN /\ CloseChan(id)
            /\ rmLast' = "removed"
            /\ UNCHANGED <<isAlive, clients>>
       ELSE /\ rmLast' = "absent"
            /\ UNCHANGED <<isAlive, closed, closeCount, panicked, clients>>
  /\ UNCHANGED <<chanCap, used, send, bcPc, bcMsg, bcTodo, bcSent, bcSkipped,
                 sPc, sId, sMsg, sRes>>

\* RemoveClient that forgets close(client.send)
RemoveClientNoClose(id) ==
  /\ ~panicked
  /\ WriteLockFree
  /\ id \in ClientIds
  /\ IF id \in clients
       THEN /\ isAlive' = [isAlive EXCEPT ![id] = FALSE]
            /\ clients' = clients \ {id}
            /\ rmLast' = "removed"
            /\ UNCHANGED <<closed, closeCount, panicked>>
       ELSE /\ rmLast' = "absent"
            /\ UNCHANGED <<isAlive, closed, closeCount, panicked, clients>>
  /\ UNCHANGED <<chanCap, used, send, bcPc, bcMsg, bcTodo, bcSent, bcSkipped,
                 sPc, sId, sMsg, sRes>>

\* RemoveClient: the whole body runs under mu.Lock()
RemoveClient(id) ==
  /\ ~panicked
  /\ WriteLockFree
  /\ id \in ClientIds
  /\ IF id \in clients
       THEN /\ isAlive' = [isAlive EXCEPT ![id] = FALSE]
            /\ CloseChan(id)
            /\ clients' = clients \ {id}
            /\ rmLast' = "removed"
       ELSE /\ rmLast' = "absent"
            /\ UNCHANGED <<isAlive, closed, closeCount, panicked, clients>>
  /\ UNCHANGED <<chanCap, used, send, bcPc, bcMsg, bcTodo, bcSent, bcSkipped,
                 sPc, sId, sMsg, sRes>>

\* Send without the !ok return: it goes on with whatever the lookup gave
SendLookupNoCheck(s, id, m) ==
  /\ ~panicked
  /\ sPc[s] = "idle"
  /\ sId' = [sId EXCEPT ![s] = id]
  /\ sPc' = [sPc EXCEPT ![s] = "found"]
  /\ sMsg' = [sMsg EXCEPT ![s] = m]
  /\ sRes' = [sRes EXCEPT ![s] = "none"]
  /\ UNCHANGED <<chanCap, used, clients, isAlive, send, closed, closeCount, rmLast,
                 panicked, bcPc, bcMsg, bcTodo, bcSent, bcSkipped>>

\* Send, lines 69-75: the lookup under mu.RLock() and the !ok return
SendLookup(s, id, m) ==
  /\ ~panicked
  /\ sPc[s] = "idle"
  /\ sId' = [sId EXCEPT ![s] = id]
  /\ IF id \in clients
       THEN /\ sPc' = [sPc EXCEPT ![s] = "found"]
            /\ sMsg' = [sMsg EXCEPT ![s] = m]
            /\ sRes' = [sRes EXCEPT ![s] = "none"]
       ELSE /\ sPc' = [sPc EXCEPT ![s] = "done"]
            /\ sMsg' = [sMsg EXCEPT ![s] = NoMsg]
            /\ sRes' = [sRes EXCEPT ![s] = "not_found"]
  /\ UNCHANGED <<chanCap, used, clients, isAlive, send, closed, closeCount, rmLast,
                 panicked, bcPc, bcMsg, bcTodo, bcSent, bcSkipped>>

\* Send, lines 77-79: client.isAlive is read after mu.RUnlock()
SendCheckAlive(s) ==
  /\ ~panicked
  /\ sPc[s] = "found"
  /\ IF isAlive[sId[s]]
       THEN /\ sPc' = [sPc EXCEPT ![s] = "sending"]
            /\ UNCHANGED <<sMsg, sRes>>
       ELSE /\ sPc' = [sPc EXCEPT ![s] = "done"]
            /\ sMsg' = [sMsg EXCEPT ![s] = NoMsg]
            /\ sRes' = [sRes EXCEPT ![s] = "closed"]
  /\ UNCHANGED <<chanCap, used, clients, isAlive, send, closed, closeCount, rmLast,
                 panicked, bcPc, bcMsg, bcTodo, bcSent, bcSkipped, sId>>

\* Send, lines 81-83: the send case of the select; a send on a closed
\* channel panics, a send on a full channel waits
SendEnqueue(s) ==
  /\ ~panicked
  /\ sPc[s] = "sending"
  /\ \/ /\ closed[sId[s]]
        /\ panicked' = TRUE
        /\ sRes' = [sRes EXCEPT ![s] = "panic"]
        /\ UNCHANGED send
     \/ /\ ~closed[sId[s]]
        /\ Len(send[sId[s]]) < chanCap[sId[s]]
        /\ send' = [send EXCEPT ![sId[s]] = Append(@, sMsg[s])]
        /\ sRes' = [sRes EXCEPT ![s] = "ok"]
        /\ UNCHANGED panicked
  /\ sPc' = [sPc EXCEPT ![s] = "done"]
  /\ sMsg' = [sMsg EXCEPT ![s] = NoMsg]
  /\ UNCHANGED <<chanCap, used, clients, isAlive, closed, closeCount, rmLast,
                 bcPc, bcMsg, bcTodo, bcSent, bcSkipped, sId>>

\* Send, lines 84-85: time.After(2s) fires while the send is still blocked
SendTimeout(s) ==
  /\ ~panicked
  /\ sPc[s] = "sending"
  /\ ~closed[sId[s]]
  /\ Len(send[sId[s]]) = chanCap[sId[s]]
  /\ sPc' = [sPc EXCEPT ![s] = "done"]
  /\ sMsg' = [sMsg EXCEPT ![s] = NoMsg]
  /\ sRes' = [sRes EXCEPT ![s] = "timeout"]
  /\ UNCHANGED <<chanCap, used, clients, isAlive, send, closed, closeCount, rmLast,
                 panicked, bcPc, bcMsg, bcTodo, bcSent, bcSkipped, sId>>

\* Send returns to its caller, its locals die
SendReturn(s) ==
  /\ ~panicked
  /\ sPc[s] = "done"
  /\ sPc' = [sPc EXCEPT ![s] = "idle"]
  /\ sId' = [sId EXCEPT ![s] = 1]
  /\ sRes' = [sRes EXCEPT ![s] = "none"]
  /\ UNCHANGED <<chanCap, used, clients, isAlive, send, closed, closeCount, rmLast,
                 panicked, bcPc, bcMsg, bcTodo, bcSent, bcSkipped, sMsg>>

\* Broadcast, lines 91-94: mu.RLock() and the start of the range loop
BroadcastBegin(m) ==
  /\ ~panicked
  /\ bcPc = "idle"
  /\ bcPc' = "iter"
  /\ bcMsg' = m
  /\ bcTodo' = clients
  /\ bcSent' = {}
  /\ bcSkipped' = {}
  /\ UNCHANGED <<chanCap, used, clients, isAlive, send, closed, closeCount, rmLast,
                 panicked, sPc, sId, sMsg, sRes>>

\* Broadcast with a plain channel send instead of the select with default:
\* the turn waits until the mailbox has space
BroadcastStepBlocking(id) ==
  /\ ~panicked
  /\ bcPc = "iter"
  /\ id \in bcTodo
  /\ bcTodo' = bcTodo \ {id}
  /\ IF ~isAlive[id]
       THEN UNCHANGED <<send, panicked, bcSent, bcSkipped>>
       ELSE IF closed[id]
         THEN /\ panicked' = TRUE
              /\ UNCHANGED <<send, bcSent, bcSkipped>>
         ELSE /\ Len(send[id]) < chanCap[id]
              /\ send' = [send EXCEPT ![id] = Append(@, bcMsg)]
              /\ bcSent' = bcSent \cup {id}
              /\ UNCHANGED <<panicked, bcSkipped>>
  /\ UNCHANGED <<chanCap, used, clients, isAlive, closed, closeCount, rmLast,
                 bcPc, bcMsg, sPc, sId, sMsg, sRes>>

\* Broadcast whose message jumps the queue: it is put in front of the
\* messages the mailbox holds
BroadcastStepPrepend(id) ==
  /\ ~panicked
  /\ bcPc = "iter"
  /\ id \in bcTodo
  /\ bcTodo' = bcTodo \ {id}
  /\ IF ~isAlive[id]
       THEN UNCHANGED <<send, panicked, bcSent, bcSkipped>>
       ELSE IF closed[id]
         THEN /\ panicked' = TRUE
              /\ UNCHANGED <<send, bcSent, bcSkipped>>
         ELSE IF Len(send[id]) < chanCap[id]
           THEN /\ send' = [send EXCEPT ![id] = <<bcMsg>> \o @]
                /\ bcSent' = bcSent \cup {id}
                /\ UNCHANGED <<panicked, bcSkipped>>
           ELSE /\ bcSkipped' = bcSkipped \cup {id}
                /\ UNCHANGED <<send, panicked, bcSent>>
  /\ UNCHANGED <<chanCap, used, clients, isAlive, closed, closeCount, rmLast,
                 bcPc, bcMsg, sPc, sId, sMsg, sRes>>

\* Broadcast that makes room in a full mailbox: the oldest message is
\* dropped and the new one appended
BroadcastStepEvict(id) ==
  /\ ~panicked
  /\ bcPc = "iter"
  /\ id \in bcTodo
  /\ bcTodo' = bcTodo \ {id}
  /\ IF ~isAlive[id]
       THEN UNCHANGED <<send, panicked, bcSent, bcSkipped>>
       ELSE IF closed[id]
         THEN /\ panicked' = TRUE
              /\ UNCHANGED <<send, bcSent, bcSkipped>>
         ELSE IF Len(send[id]) < chanCap[id]
           THEN /\ send' = [send EXCEPT ![id] = Append(@, bcMsg)]
                /\ bcSent' = bcSent \cup {id}
                /\ UNCHANGED <<panicked, bcSkipped>>
           ELSE /\ send' = [send EXCEPT ![id] = Append(Tail(@), bcMsg)]
                /\ bcSent' = bcSent \cup {id}
                /\ UNCHANGED <<panicked, bcSkipped>>
  /\ UNCHANGED <<chanCap, used, clients, isAlive, closed, closeCount, rmLast,
                 bcPc, bcMsg, sPc, sId, sMsg, sRes>>

\* Broadcast, lines 94-104: one turn of the range loop, the select with default
BroadcastStep(id) ==
  /\ ~panicked
  /\ bcPc = "iter"
  /\ id \in bcTodo
  /\ bcTodo' = bcTodo \ {id}
  /\ IF ~isAlive[id]
       THEN UNCHANGED <<send, panicked, bcSent, bcSkipped>>
       ELSE IF closed[id]
         THEN /\ panicked' = TRUE
              /\ UNCHANGED <<send, bcSent, bcSkipped>>
         ELSE IF Len(send[id]) < chanCap[id]
           THEN /\ send' = [send EXCEPT ![id] = Append(@, bcMsg)]
                /\ bcSent' = bcSent \cup {id}
                /\ UNCHANGED <<panicked, bcSkipped>>
           ELSE /\ bcSkipped' = bcSkipped \cup {id}
                /\ UNCHANGED <<send, panicked, bcSent>>
  /\ UNCHANGED <<chanCap, used, clients, isAlive, closed, closeCount, rmLast,
                 bcPc, bcMsg, sPc, sId, sMsg, sRes>>

\* Broadcast, lines 92 and 105: the range loop is over, the deferred mu.RUnlock()
BroadcastEnd ==
  /\ ~panicked
  /\ bcPc = "iter"
  /\ bcTodo = {}
  /\ bcPc' = "idle"
  /\ bcMsg' = NoMsg
  /\ bcSent' = {}
  /\ bcSkipped' = {}
  /\ UNCHANGED <<chanCap, used, clients, isAlive, send, closed, closeCount, rmLast,
                 panicked, bcTodo, sPc, sId, sMsg, sRes>>

\* the holder of a *Client reads one message: received := <-client.send
Receive(id) ==
  /\ ~panicked
  /\ id \in used
  /\ send[id] # <<>>
  /\ send' = [send EXCEPT ![id] = Tail(@)]
  /\ UNCHANGED <<chanCap, used, clients, isAlive, closed, closeCount, rmLast, panicked,
                 bcPc, bcMsg, bcTodo, bcSent, bcSkipped, sPc, sId, sMsg, sRes>>

\* the payloads broadcast where the messages have to be told apart
Payloads == {"a", "b"}

\* no receive has taken place
NoRead == [v |-> NoMsg, ok |-> FALSE, read |-> FALSE]

PushInit == rcv = [c \in ClientIds |-> NoRead]

\* the holder of a *Client receives from its mailbox and keeps the result:
\* received, ok := <-client.send. The buffered messages come first, in
\* the order enqueued; on a closed and drained channel the receive returns
\* the zero value and ok = false; on an open and empty one it waits
Read(id) ==
  /\ ~panicked
  /\ id \in used
  /\ send[id] # <<>> \/ closed[id]
  /\ IF send[id] # <<>>
       THEN /\ rcv' = [rcv EXCEPT ![id] = [v |-> Head(send[id]), ok |-> TRUE, read |-> TRUE]]
            /\ send' = [send EXCEPT ![id] = Tail(@)]
       ELSE /\ rcv' = [rcv EXCEPT ![id] = [v |-> NoMsg, ok |-> FALSE, read |-> TRUE]]
            /\ UNCHANGED send
  /\ UNCHANGED <<chanCap, used, clients, isAlive, closed, closeCount, rmLast, panicked,
                 bcPc, bcMsg, bcTodo, bcSent, bcSkipped, sPc, sId, sMsg, sRes>>

\* ---------------------------------------------------------------------
\* Event-stream task of the streaming HTTP transport: one task per
\* connected client, for the lifetime of the connection
\* ---------------------------------------------------------------------
EsInit ==
  /\ esPc = [c \in ClientIds |-> "none"]
  /\ disc = [c \in ClientIds |-> FALSE]

\* a client opens the event stream: the task registers it with AddClient
\* and starts waiting
EsOpen(id) ==
  /\ esPc[id] = "none"
  /\ AddClient(id, MailboxCap)
  /\ esPc' = [esPc EXCEPT ![id] = "wait"]
  /\ UNCHANGED disc

\* the client's connection ends: its cancellation signal is raised
EsDisconnect(id) ==
  /\ esPc[id] = "wait"
  /\ ~disc[id]
  /\ disc' = [disc EXCEPT ![id] = TRUE]
  /\ UNCHANGED esPc
  /\ UNCHANGED sseVars

\* the task finds a message in its mailbox and emits one framed message;
\* w tells whether the write succeeds, a failed write ends the task's loop
EsEmit(id, w) ==
  /\ esPc[id] = "wait"
  /\ Receive(id)
  /\ esPc' = [esPc EXCEPT ![id] = IF w THEN "wait" ELSE "teardown"]
  /\ UNCHANGED disc

\* the task observes the disconnect and ends its loop
EsObserveDone(id) ==
  /\ esPc[id] = "wait"
  /\ disc[id]
  /\ esPc' = [esPc EXCEPT ![id] = "teardown"]
  /\ UNCHANGED disc
  /\ UNCHANGED sseVars

\* the task tears down: it calls RemoveClient for its client and returns
EsTeardown(id) ==
  /\ esPc[id] = "teardown"
  /\ RemoveClient(id)
  /\ esPc' = [esPc EXCEPT ![id] = "gone"]
  /\ UNCHANGED disc

\* ---------------------------------------------------------------------
\* Decoded JSON (map[string]interface{} as json.Decoder produces it)
\* ---------------------------------------------------------------------
\* a value found under a key of a decoded object; "absent": the key is missing
Absent == [k |-> "absent", v |-> ""]
Null == [k |-> "null", v |-> ""]
Num(x) == [k |-> "number", v |-> x]
Str(x) == [k |-> "string", v |-> x]

\* message["params"]: missing, not an object, or an object with a "name" entry
NoParams == [k |-> "absent", name |-> Absent]
BadParams == [k |-> "string", name |-> Absent]
ObjParams(n) == [k |-> "object", name |-> n]

\* ---------------------------------------------------------------------
\* Tool directory (internal/server/tool_service.go, pkg/tools/uuid_gen.go)
\* ---------------------------------------------------------------------
\* ToolService.tools: generate_uuid is the builtin tool, failing_tool is
\* the MockTool the tests register
ToolNames == {"generate_uuid", "failing_tool"}

Description(t) ==
  IF t = "generate_uuid" THEN "Generates a random UUID v4 string"
  ELSE "A tool that always fails"

\* what tool.Execute can return: UUIDGen.Execute fails when uuid.NewRandom
\* does, the mock always fails
ExecOutcomes(t) ==
  IF t = "generate_uuid"
    THEN {[res |-> "uuid", err |-> <<>>], [res |-> "error", err |-> <<"rand failure">>]}
    ELSE {[res |-> "nil", err |-> <<"mock execution error">>]}

AllOutcomes == UNION {ExecOutcomes(t) : t \in ToolNames}

\* the outcome that stands for "Execute is not called"
NoOutcome == [res |-> "nil", err |-> <<>>]

\* ToolService.ExecuteTool(name, args): o is what tool.Execute returns when
\* it is called; ran lists the tool executed
ExecuteTool(name, o) ==
  IF name \notin tools
    THEN [res |-> "nil", err |-> <<"tool not found: ", name>>, ran |-> <<>>]
    ELSE IF o.err # <<>>
      THEN [res |-> "nil", err |-> o.err, ran |-> <<name>>]
      ELSE [res |-> o.res, err |-> <<>>, ran |-> <<name>>]

\* ---------------------------------------------------------------------
\* JSONRPCProcessor (internal/server/jsonrpc_processor.go)
\* ---------------------------------------------------------------------
\* the Result interface{} and Error *ErrorObject fields of JSONRPCResponse
NilResult == [nil |-> TRUE, kind |-> "", v |-> <<>>]
NilError == [nil |-> TRUE, code |-> 0, message |-> <<>>]

\* the orders in which a range over ToolService.tools can visit its keys:
\* each key once, in an order Go does not specify
RangeOrders ==
  {p \in [1..Cardinality(tools) -> tools] : Range(p) = tools}

\* getAvailableTools that appends the Name only and leaves Description empty
getAvailableToolsNoDescription(ord) ==
  [i \in DOMAIN ord |-> <<ord[i], "">>]

\* getAvailableTools: the range over GetTools() appends one ToolDefinition
\* (Name, Description) per tool visited; ord is the order of the visit
getAvailableTools(ord) ==
  [i \in DOMAIN ord |-> <<ord[i], Description(ord[i])>>]

\* HandleInitialize: the tool list sits under Capabilities["tools"]
HandleInitialize(id, ord) ==
  [jsonrpc |-> "2.0", id |-> id,
   Result |-> [nil |-> FALSE, kind |-> "initialize", v |-> getAvailableTools(ord)],
   Error |-> NilError]

\* HandleToolsList: the tool list sits under "tools"
HandleToolsList(id, ord) ==
  [jsonrpc |-> "2.0", id |-> id,
   Result |-> [nil |-> FALSE, kind |-> "tools", v |-> getAvailableTools(ord)],
   Error |-> NilError]

\* CreateErrorResponse that also fills Result (an empty payload)
CreateErrorResponseWithResult(id, code, message) ==
  [jsonrpc |-> "2.0", id |-> id,
   Result |-> [nil |-> FALSE, kind |-> "tool", v |-> <<>>],
   Error |-> [nil |-> FALSE, code |-> code, message |-> message]]

\* CreateErrorResponse that leaves ID unset: the error goes out with id null
CreateErrorResponseNullId(id, code, message) ==
  [jsonrpc |-> "2.0", id |-> Null,
   Result |-> NilResult,
   Error |-> [nil |-> FALSE, code |-> code, message |-> message]]

CreateErrorResponse(id, code, message) ==
  [jsonrpc |-> "2.0", id |-> id,
   Result |-> NilResult,
   Error |-> [nil |-> FALSE, code |-> code, message |-> message]]

\* HandleToolsCall that looks the tool up itself and answers an unknown
\* tool with -32601 "Tool not found"
HandleToolsCallNotFound(params, id, o) ==
  IF params.name.k # "string"
    THEN [resp |-> CreateErrorResponse(id, -32602, <<"Invalid params: Missing tool name">>),
          ran |-> <<>>]
    ELSE IF params.name.v \notin ToolNames
      THEN [resp |-> CreateErrorResponse(id, -32601, <<"Tool not found">>), ran |-> <<>>]
    ELSE LET r == ExecuteTool(params.name.v, o) IN
      IF r.err # <<>>
        THEN [resp |-> CreateErrorResponse(id, -32000, <<"Tool execution error: ">> \o r.err),
              ran |-> r.ran]
        ELSE [resp |-> [jsonrpc |-> "2.0", id |-> id,
                        Result |-> [nil |-> FALSE, kind |-> "tool", v |-> <<<<"result", r.res>>>>],
                        Error |-> NilError],
              ran |-> r.ran]

\* HandleToolsCall without the type assertion on params["name"]: a missing
\* or non-string name is passed on to ExecuteTool as it is
HandleToolsCallNoNameCheck(params, id, o) ==
  LET r == ExecuteTool(params.name.v, o) IN
    IF r.err # <<>>
      THEN [resp |-> CreateErrorResponse(id, -32000, <<"Tool execution error: ">> \o r.err),
            ran |-> r.ran]
      ELSE [resp |-> [jsonrpc |-> "2.0", id |-> id,
                      Result |-> [nil |-> FALSE, kind |-> "tool", v |-> <<<<"result", r.res>>>>],
                      Error |-> NilError],
            ran |-> r.ran]

\* HandleToolsCall that reports a failed execution as -32603 "Internal error"
HandleToolsCallInternalError(params, id, o) ==
  IF params.name.k # "string"
    THEN [resp |-> CreateErrorResponse(id, -32602, <<"Invalid params: Missing tool name">>),
          ran |-> <<>>]
    ELSE LET r == ExecuteTool(params.name.v, o) IN
      IF r.err # <<>>
        THEN [resp |-> CreateErrorResponse(id, -32603, <<"Internal error">>),
              ran |-> r.ran]
        ELSE [resp |-> [jsonrpc |-> "2.0", id |-> id,
                        Result |-> [nil |-> FALSE, kind |-> "tool", v |-> <<<<"result", r.res>>>>],
                        Error |-> NilError],
              ran |-> r.ran]

\* HandleToolsCall returns the response and the tools it executed
HandleToolsCall(params, id, o) ==
  IF params.name.k # "string"
    THEN [resp |-> CreateErrorResponse(id, -32602, <<"Invalid params: Missing tool name">>),
          ran |-> <<>>]
    ELSE LET r == ExecuteTool(params.name.v, o) IN
      IF r.err # <<>>
        THEN [resp |-> CreateErrorResponse(id, -32000, <<"Tool execution error: ">> \o r.err),
              ran |-> r.ran]
        ELSE [resp |-> [jsonrpc |-> "2.0", id |-> id,
                        Result |-> [nil |-> FALSE, kind |-> "tool", v |-> <<<<"result", r.res>>>>],
                        Error |-> NilError],
              ran |-> r.ran]

\* json.Encoder on JSONRPCResponse: the keys of the object written;
\* result and error are omitempty
Encode(resp) ==
  {"jsonrpc", "id"} \cup (IF resp.Result.nil THEN {} ELSE {"result"})
                    \cup (IF resp.Error.nil THEN {} ELSE {"error"})

\* ---------------------------------------------------------------------
\* stdio MCPServer (internal/server/mcp_server.go)
\* ---------------------------------------------------------------------
MethodVals == {Absent, Num("5"), Str("initialize"), Str("initialized"),
               Str("tools/list"), Str("tools/call"), Str("foo")}
IdVals == {Absent, Num("1"), Str("1")}
NameVals == {Absent, Num("7"), Str("nope")} \cup {Str(t) : t \in ToolNames}
ParamVals == {NoParams, BadParams} \cup {ObjParams(n) : n \in NameVals}

\* the decoded objects the model feeds to the server; params vary only
\* where the code reads them, and the "jsonrpc" key, which the code never
\* reads, is the "2.0" of the protocol except in EnvelopeMessages
Messages ==
  {[jsonrpc |-> Str("2.0"), method |-> me, id |-> i, params |-> p] :
     me \in MethodVals, i \in IdVals, p \in ParamVals}

InMessages ==
  {m \in Messages : m.method # Str("tools/call") => m.params = NoParams}

\* what a client can put under "jsonrpc": nothing, a number, another
\* version, the version of the protocol
JsonrpcVals == {Absent, Num("2"), Str("1.0"), Str("2.0")}

\* requests with an id whose "jsonrpc" key varies
EnvelopeMessages ==
  {[jsonrpc |-> v, method |-> me, id |-> Num("1"),
    params |-> ObjParams(Str("generate_uuid"))] :
     v \in JsonrpcVals,
     me \in {Str("initialize"), Str("tools/list"), Str("tools/call")}}

\* id := message["id"]: a missing key reads as nil
IdOf(m) == IF m.id = Absent THEN Null ELSE m.id
\* _, hasId := message["id"]
HasId(m) == m.id # Absent

NoErr == <<>>

\* handleMessage whose default case answers -32601 without looking at hasId
handleMessageNoHasId(m, o) ==
  IF m.method.k # "string"
    THEN IF HasId(m)
      THEN [resp |-> <<CreateErrorResponse(IdOf(m), -32600, <<"Invalid Request">>)>>,
            err |-> NoErr, ran |-> <<>>]
      ELSE [resp |-> <<>>, err |-> <<"invalid message: missing method">>, ran |-> <<>>]
    ELSE IF m.method.v = "initialized"
      THEN [resp |-> <<>>, err |-> NoErr, ran |-> <<>>]
    ELSE IF m.method.v = "tools/list"
      THEN [resp |-> <<HandleToolsList(IdOf(m), o.order)>>, err |-> NoErr, ran |-> <<>>]
    ELSE IF m.method.v = "tools/call"
      THEN IF m.params.k # "object"
        THEN [resp |-> <<CreateErrorResponse(IdOf(m), -32602, <<"Invalid params">>)>>,
              err |-> NoErr, ran |-> <<>>]
        ELSE LET c == HandleToolsCall(m.params, IdOf(m), o.exec) IN
             [resp |-> <<c.resp>>, err |-> NoErr, ran |-> c.ran]
    ELSE [resp |-> <<CreateErrorResponse(IdOf(m), -32601, <<"Method not found">>)>>,
          err |-> NoErr, ran |-> <<>>]

\* handleMessage that hands whatever is under "params" to HandleToolsCall
handleMessageAnyParams(m, o) ==
  IF m.method.k # "string"
    THEN IF HasId(m)
      THEN [resp |-> <<CreateErrorResponse(IdOf(m), -32600, <<"Invalid Request">>)>>,
            err |-> NoErr, ran |-> <<>>]
      ELSE [resp |-> <<>>, err |-> <<"invalid message: missing method">>, ran |-> <<>>]
    ELSE IF m.method.v = "initialized"
      THEN [resp |-> <<>>, err |-> NoErr, ran |-> <<>>]
    ELSE IF m.method.v = "tools/list"
      THEN [resp |-> <<HandleToolsList(IdOf(m), o.order)>>, err |-> NoErr, ran |-> <<>>]
    ELSE IF m.method.v = "tools/call"
      THEN LET c == HandleToolsCall(m.params, IdOf(m), o.exec) IN
             [resp |-> <<c.resp>>, err |-> NoErr, ran |-> c.ran]
    ELSE IF HasId(m)
      THEN [resp |-> <<CreateErrorResponse(IdOf(m), -32601, <<"Method not found">>)>>,
            err |-> NoErr, ran |-> <<>>]
      ELSE [resp |-> <<>>, err |-> NoErr, ran |-> <<>>]

\* handleMessage(message): resp holds the response handed to sendResponse
\* (none or one), err the error returned before any sendResponse, ran the
\* tools executed; o.exec is the outcome of tool.Execute if it is called,
\* o.order the order of the range over the tools if they are listed
handleMessage(m, o) ==
  IF m.method.k # "string"
    THEN IF HasId(m)
      THEN [resp |-> <<CreateErrorResponse(IdOf(m), -32600, <<"Invalid Request">>)>>,
            err |-> NoErr, ran |-> <<>>]
      ELSE [resp |-> <<>>, err |-> <<"invalid message: missing method">>, ran |-> <<>>]
    ELSE IF m.method.v = "initialized"
      THEN [resp |-> <<>>, err |-> NoErr, ran |-> <<>>]
    ELSE IF m.method.v = "tools/list"
      THEN [resp |-> <<HandleToolsList(IdOf(m), o.order)>>, err |-> NoErr, ran |-> <<>>]
    ELSE IF m.method.v = "tools/call"
      THEN IF m.params.k # "object"
        THEN [resp |-> <<CreateErrorResponse(IdOf(m), -32602, <<"Invalid params">>)>>,
              err |-> NoErr, ran |-> <<>>]
        ELSE LET c == HandleToolsCall(m.params, IdOf(m), o.exec) IN
             [resp |-> <<c.resp>>, err |-> NoErr, ran |-> c.ran]
    ELSE IF HasId(m)
      THEN [resp |-> <<CreateErrorResponse(IdOf(m), -32601, <<"Method not found">>)>>,
            err |-> NoErr, ran |-> <<>>]
      ELSE [resp |-> <<>>, err |-> NoErr, ran |-> <<>>]

\* what the runtime can yield while m is handled: the outcomes of the tool
\* m names, if handleMessage gets as far as calling it, and the orders of
\* the range over the tools, if m lists them
OutcomesFor(m) ==
  IF /\ m.method = Str("tools/call")
     /\ m.params.k = "object"
     /\ m.params.name.k = "string"
     /\ m.params.name.v \in tools
    THEN {[exec |-> e, order |-> <<>>] : e \in ExecOutcomes(m.params.name.v)}
    ELSE IF m.method = Str("tools/list")
      THEN {[exec |-> NoOutcome, order |-> p] : p \in RangeOrders}
      ELSE {[exec |-> NoOutcome, order |-> <<>>]}

NoMessage == [jsonrpc |-> Absent, method |-> Absent, id |-> Absent, params |-> NoParams]

RPCInit ==
  /\ pc = "start"
  /\ out = <<>>
  /\ nLoop = 0
  /\ cancelled = FALSE
  /\ lastStep = "none"
  /\ lastMsg = NoMessage
  /\ lastOut = <<>>
  /\ lastErr = NoErr
  /\ execLog = <<>>
  /\ tools = ToolNames
  /\ lastToolErr = NoErr
  /\ outReq = <<>>

\* sendResponse(response): json.NewEncoder(os.Stdout).Encode; w tells
\* whether the write succeeds
sendResponse(resps, w) ==
  IF resps = <<>> THEN [written |-> <<>>, err |-> NoErr]
  ELSE IF w THEN [written |-> resps, err |-> NoErr]
  ELSE [written |-> <<>>, err |-> <<"write failed">>]

\* Start, lines 31-34: the first Decode fails
StartDecodeFail ==
  /\ pc = "start"
  /\ pc' = "stopped"
  /\ lastStep' = "decodefail"
  /\ lastErr' = <<"failed to read initialize request">>
  /\ UNCHANGED <<out, nLoop, cancelled, lastMsg, lastOut, execLog, tools, lastToolErr, outReq>>

\* Start without the validation of lines 37-40: whatever the first message
\* is, it is answered as an initialize request
StartInitNoCheck(m, ord, w) ==
  /\ pc = "start"
  /\ lastStep' = "init"
  /\ lastMsg' = m
  /\ LET r == <<HandleInitialize(IdOf(m), ord)>>
         s == sendResponse(r, w) IN
       /\ lastOut' = r
       /\ out' = out \o s.written
       /\ outReq' = outReq \o [i \in DOMAIN s.written |-> 0]
       /\ lastErr' = IF s.err = NoErr THEN NoErr
                     ELSE <<"failed to send initialize response: ">> \o s.err
       /\ pc' = IF s.err = NoErr THEN "select" ELSE "stopped"
  /\ UNCHANGED <<nLoop, cancelled, execLog, tools, lastToolErr>>

\* Start, lines 31-50: the initialize exchange
StartInit(m, ord, w) ==
  /\ pc = "start"
  /\ lastStep' = "init"
  /\ lastMsg' = m
  /\ IF m.method # Str("initialize")
       THEN /\ pc' = "stopped"
            /\ lastErr' = <<"expected initialize request">>
            /\ lastOut' = <<>>
            /\ UNCHANGED <<out, outReq>>
       ELSE LET r == <<HandleInitialize(IdOf(m), ord)>>
                s == sendResponse(r, w) IN
            /\ lastOut' = r
            /\ out' = out \o s.written
            /\ outReq' = outReq \o [i \in DOMAIN s.written |-> 0]
            /\ lastErr' = IF s.err = NoErr THEN NoErr
                          ELSE <<"failed to send initialize response: ">> \o s.err
            /\ pc' = IF s.err = NoErr THEN "select" ELSE "stopped"
  /\ UNCHANGED <<nLoop, cancelled, execLog, tools, lastToolErr>>

\* Start whose loop never looks at ctx.Done()
LoopSelectNoCtx ==
  /\ pc = "select"
  /\ nLoop < MaxLoopMsgs
  /\ pc' = "decode"
  /\ UNCHANGED <<lastStep, lastErr>>
  /\ UNCHANGED <<out, nLoop, cancelled, lastMsg, lastOut, execLog, tools, lastToolErr, outReq>>

\* Start, lines 54-57: the select of one loop turn; the default branch is
\* followed for MaxLoopMsgs turns, the ctx.Done branch always
LoopSelect ==
  /\ pc = "select"
  /\ cancelled \/ nLoop < MaxLoopMsgs
  /\ IF cancelled
       THEN /\ pc' = "stopped"
            /\ lastStep' = "ctxdone"
            /\ lastErr' = NoErr
       ELSE /\ pc' = "decode"
            /\ UNCHANGED <<lastStep, lastErr>>
  /\ UNCHANGED <<out, nLoop, cancelled, lastMsg, lastOut, execLog, tools, lastToolErr, outReq>>

\* Start, lines 58-62: Decode fails (end of input, malformed JSON)
LoopDecodeFail ==
  /\ pc = "decode"
  /\ pc' = "stopped"
  /\ lastStep' = "decodefail"
  /\ lastErr' = <<"failed to decode message">>
  /\ UNCHANGED <<out, nLoop, cancelled, lastMsg, lastOut, execLog, tools, lastToolErr, outReq>>

\* the loop turn whose response goes out ahead of the responses written
\* before it
LoopStepWriteAhead(m, o, w) ==
  /\ pc = "decode"
  /\ nLoop < MaxLoopMsgs
  /\ LET h == handleMessage(m, o)
         s == sendResponse(h.resp, w)
         e == IF h.err # NoErr THEN h.err ELSE s.err IN
     /\ nLoop' = nLoop + 1
     /\ lastStep' = "handle"
     /\ lastMsg' = m
     /\ lastOut' = h.resp
     /\ out' = s.written \o out
     /\ outReq' = [i \in DOMAIN s.written |-> nLoop + 1] \o outReq
     /\ execLog' = execLog \o h.ran
     /\ lastToolErr' = IF h.ran # <<>> THEN o.exec.err ELSE NoErr
     /\ lastErr' = IF e = NoErr THEN NoErr ELSE <<"failed to handle message: ">> \o e
     /\ pc' = IF e = NoErr THEN "select" ELSE "stopped"
  /\ UNCHANGED <<cancelled, tools>>

\* the loop turn that unregisters a tool whose Execute has failed
LoopStepUnregister(m, o, w) ==
  /\ pc = "decode"
  /\ nLoop < MaxLoopMsgs
  /\ LET h == handleMessage(m, o)
         s == sendResponse(h.resp, w)
         e == IF h.err # NoErr THEN h.err ELSE s.err IN
     /\ nLoop' = nLoop + 1
     /\ lastStep' = "handle"
     /\ lastMsg' = m
     /\ lastOut' = h.resp
     /\ out' = out \o s.written
     /\ outReq' = outReq \o [i \in DOMAIN s.written |-> nLoop + 1]
     /\ execLog' = execLog \o h.ran
     /\ lastToolErr' = IF h.ran # <<>> THEN o.exec.err ELSE NoErr
     /\ lastErr' = IF e = NoErr THEN NoErr ELSE <<"failed to handle message: ">> \o e
     /\ pc' = IF e = NoErr THEN "select" ELSE "stopped"
     /\ tools' = IF h.ran # <<>> /\ o.exec.err # NoErr THEN tools \ Range(h.ran) ELSE tools
  /\ UNCHANGED cancelled

\* Start, lines 58-67: Decode returns m and handleMessage(m) runs
LoopStep(m, o, w) ==
  /\ pc = "decode"
  /\ nLoop < MaxLoopMsgs
  /\ LET h == handleMessage(m, o)
         s == sendResponse(h.resp, w)
         e == IF h.err # NoErr THEN h.err ELSE s.err IN
     /\ nLoop' = nLoop + 1
     /\ lastStep' = "handle"
     /\ lastMsg' = m
     /\ lastOut' = h.resp
     /\ out' = out \o s.written
     /\ outReq' = outReq \o [i \in DOMAIN s.written |-> nLoop + 1]
     /\ execLog' = execLog \o h.ran
     /\ lastToolErr' = IF h.ran # <<>> THEN o.exec.err ELSE NoErr
     /\ lastErr' = IF e = NoErr THEN NoErr ELSE <<"failed to handle message: ">> \o e
     /\ pc' = IF e = NoErr THEN "select" ELSE "stopped"
  /\ UNCHANGED <<cancelled, tools>>

\* ctx is not cancelled yet
LingerInit == cancelAt = -1

\* the caller of Start cancels ctx
Cancel ==
  /\ ~cancelled
  /\ pc # "stopped"
  /\ cancelled' = TRUE
  /\ UNCHANGED <<pc, out, nLoop, lastStep, lastMsg, lastOut, lastErr, execLog, tools,
                 lastToolErr, outReq>>

\* ---------------------------------------------------------------------
\* Combined server (Server.Start) and main (cmd/server/main.go)
\* ---------------------------------------------------------------------
\* the servers Server.Start runs next to the stdio MCPServer; main enables
\* all of them by default
OtherServers == {"http", "streamable", "websocket"}

\* make(chan error, 4)
ErrChanCap == 4

NoCause == [from |-> "none", failed |-> FALSE]

\* NewServer: nothing runs yet
ServerInit ==
  /\ srvPc = "init"
  /\ srv = [sv \in OtherServers |-> "idle"]
  /\ errChan = <<>>
  /\ mcpSent = FALSE
  /\ srvCause = NoCause
  /\ exit = "none"

\* Server.Start, lines 42-72: one goroutine per server, then the select
ServerStart ==
  /\ exit = "none"
  /\ srvPc = "init"
  /\ srvPc' = "wait"
  /\ srv' = [sv \in OtherServers |-> "starting"]
  /\ UNCHANGED <<errChan, mcpSent, srvCause, exit>>
  /\ UNCHANGED rpcVars

\* ListenAndServe of server sv has bound its port and serves
ServerListen(sv) ==
  /\ exit = "none"
  /\ srv[sv] = "starting"
  /\ srv' = [srv EXCEPT ![sv] = "serving"]
  /\ UNCHANGED <<srvPc, errChan, mcpSent, srvCause, exit>>
  /\ UNCHANGED rpcVars

\* ListenAndServe of server sv returns an error: errChan <- s.xServer.Start()
ServerFail(sv) ==
  /\ exit = "none"
  /\ srv[sv] \in {"starting", "serving"}
  /\ Len(errChan) < ErrChanCap
  /\ srv' = [srv EXCEPT ![sv] = "failed"]
  /\ errChan' = Append(errChan, [from |-> sv, failed |-> TRUE])
  /\ UNCHANGED <<srvPc, mcpSent, srvCause, exit>>
  /\ UNCHANGED rpcVars

\* line 52: MCPServer.Start has returned, errChan <- its result
McpReturn ==
  /\ exit = "none"
  /\ srvPc # "init"
  /\ pc = "stopped"
  /\ ~mcpSent
  /\ Len(errChan) < ErrChanCap
  /\ errChan' = Append(errChan, [from |-> "mcp", failed |-> lastErr # NoErr])
  /\ mcpSent' = TRUE
  /\ UNCHANGED <<srvPc, srv, srvCause, exit>>
  /\ UNCHANGED rpcVars

\* Server.Start, lines 79-81: the select receives from errChan, cancels ctx
\* and returns "server error: ..." (an error, even when the value received
\* is nil); main, lines 122-124: log.Fatalf ends the process with status 1
ServerErr ==
  /\ exit = "none"
  /\ srvPc = "wait"
  /\ errChan # <<>>
  /\ srvCause' = Head(errChan)
  /\ errChan' = Tail(errChan)
  /\ cancelled' = TRUE
  /\ srvPc' = "returned"
  /\ exit' = "1"
  /\ srv' = [sv \in OtherServers |-> "stopped"]
  /\ UNCHANGED mcpSent
  /\ UNCHANGED <<pc, out, nLoop, lastStep, lastMsg, lastOut, lastErr, execLog, tools,
                 lastToolErr, outReq>>

\* Server.Start, lines 76-78: a signal arrives, ctx is cancelled and
\* shutdown stops the three servers; ok tells whether every Stop succeeded;
\* main returns (status 0) or log.Fatalf ends the process (status 1)
ServerSignal(ok) ==
  /\ exit = "none"
  /\ srvPc = "wait"
  /\ srvCause' = [from |-> "signal", failed |-> ~ok]
  /\ cancelled' = TRUE
  /\ srvPc' = "returned"
  /\ exit' = IF ok THEN "0" ELSE "1"
  /\ srv' = [sv \in OtherServers |-> "stopped"]
  /\ UNCHANGED <<errChan, mcpSent>>
  /\ UNCHANGED <<pc, out, nLoop, lastStep, lastMsg, lastOut, lastErr, execLog, tools,
                 lastToolErr, outReq>>

\* ---- Server.shutdown (part_007, lines 86-122) ----
\* the order in which shutdown goes through the servers
StopOrder == <<"http", "streamable", "websocket">>

\* what follows the Stop of server sv
AfterStop(sv) ==
  IF sv = "http" THEN "streamable" ELSE IF sv = "streamable" THEN "websocket" ELSE "returned"

\* the text shutdown puts before the error of a Stop
StopText(sv) ==
  IF sv = "http" THEN "failed to stop HTTP server: "
  ELSE IF sv = "streamable" THEN "failed to stop Streamable HTTP server: "
  ELSE "failed to stop WebSocket server: "

\* no shutdown has been called
ShutdownInit ==
  /\ sdPc = "idle"
  /\ sdPresent = {}
  /\ sdStarted = {}
  /\ sdCalled = <<>>
  /\ sdFailed = {}
  /\ sdErr = NoErr

\* shutdown is called on a Server built with the servers of present, of
\* which those of started are running; lines 86-90
ShutdownCall(present, started) ==
  /\ sdPc = "idle"
  /\ started \subseteq present
  /\ sdPc' = "http"
  /\ sdPresent' = present
  /\ sdStarted' = started
  /\ UNCHANGED <<sdCalled, sdFailed, sdErr>>

\* shutdown that returns at the first Stop that fails
ShutdownStopFirstError(fails) ==
  /\ sdPc \in OtherServers
  /\ IF sdPc \notin sdPresent
       THEN /\ sdPc' = AfterStop(sdPc)
            /\ UNCHANGED <<sdCalled, sdFailed, sdErr>>
       ELSE /\ sdCalled' = Append(sdCalled, sdPc)
            /\ IF fails /\ sdPc \in sdStarted
                 THEN /\ sdFailed' = sdFailed \cup {sdPc}
                      /\ sdErr' = <<StopText(sdPc), "context deadline exceeded">>
                      /\ sdPc' = "returned"
                 ELSE /\ sdPc' = AfterStop(sdPc)
                      /\ UNCHANGED <<sdFailed, sdErr>>
  /\ UNCHANGED <<sdPresent, sdStarted>>

\* one of the three "if s.xServer != nil" blocks, lines 92-118: Stop is
\* called on the server if the field is set; fails tells whether the
\* Shutdown of a running http.Server returns an error (the Stop of a server
\* that never started returns nil: there is no http.Server, or one with no
\* listener and no connection); after the last block shutdown returns
ShutdownStop(fails) ==
  /\ sdPc \in OtherServers
  /\ sdPc' = AfterStop(sdPc)
  /\ IF sdPc \notin sdPresent
       THEN UNCHANGED <<sdCalled, sdFailed, sdErr>>
       ELSE /\ sdCalled' = Append(sdCalled, sdPc)
            /\ IF fails /\ sdPc \in sdStarted
                 THEN /\ sdFailed' = sdFailed \cup {sdPc}
                      /\ sdErr' = IF sdErr # NoErr /\ sdPc # "http"
                                    THEN sdErr \o <<"; ", StopText(sdPc),
                                                     "context deadline exceeded">>
                                    ELSE <<StopText(sdPc), "context deadline exceeded">>
                 ELSE UNCHANGED <<sdFailed, sdErr>>
  /\ UNCHANGED <<sdPresent, sdStarted>>

\* the lines the stdio client sends while the combined server is observed
ServerMessages ==
  {[jsonrpc |-> Str("2.0"), method |-> Str("initialize"), id |-> Num("1"),
    params |-> NoParams],
   [jsonrpc |-> Str("2.0"), method |-> Str("tools/list"), id |-> Num("1"),
    params |-> NoParams],
   [jsonrpc |-> Str("2.0"), method |-> Str("foo"), id |-> Absent,
    params |-> NoParams]}

\* the goroutine of line 51-53 runs MCPServer.Start while the process lives
StdioRuns == exit = "none" /\ srvPc # "init"

\* ---------------------------------------------------------------------
\* WebSocket connection (internal/server/websocket_server.go, lines 56-92)
\* ---------------------------------------------------------------------
\* JSONRPCProcessor.Process(ctx, request): the top-level dispatch, which
\* answers a message by its method: no method is -32600 when there is an id
\* and nothing otherwise, initialized gets nothing, initialize, tools/list
\* and tools/call go to their handlers, any other method is -32601 when
\* there is an id and nothing otherwise
Process(m, o) ==
  IF m.method.k # "string"
    THEN IF HasId(m)
      THEN <<CreateErrorResponse(IdOf(m), -32600, <<"Invalid Request">>)>>
      ELSE <<>>
    ELSE IF m.method.v = "initialized" THEN <<>>
    ELSE IF m.method.v = "initialize" THEN <<HandleInitialize(IdOf(m), o.order)>>
    ELSE IF m.method.v = "tools/list" THEN <<HandleToolsList(IdOf(m), o.order)>>
    ELSE IF m.method.v = "tools/call"
      THEN IF m.params.k # "object"
        THEN <<CreateErrorResponse(IdOf(m), -32602, <<"Invalid params">>)>>
        ELSE <<HandleToolsCall(m.params, IdOf(m), o.exec).resp>>
    ELSE IF HasId(m)
      THEN <<CreateErrorResponse(IdOf(m), -32601, <<"Method not found">>)>>
      ELSE <<>>

\* what the runtime can yield while Process(m) runs
ProcessOutcomesFor(m) ==
  IF m.method \in {Str("initialize"), Str("tools/list")}
    THEN {[exec |-> NoOutcome, order |-> p] : p \in RangeOrders}
    ELSE OutcomesFor(m)

WsInit ==
  /\ wsPc = "idle"
  /\ wsN = 0
  /\ wsOut = <<>>
  /\ wsEnd = "none"

\* handleWebSocket, lines 57-68: websocket.Accept; ok tells whether the
\* upgrade succeeds
WsAccept(ok) ==
  /\ wsPc = "idle"
  /\ wsPc' = IF ok THEN "read" ELSE "closed"
  /\ wsEnd' = IF ok THEN "none" ELSE "accept_failed"
  /\ UNCHANGED <<wsN, wsOut>>

\* why wsjson.Read(ctx, conn, &request) can fail: the peer has closed the
\* connection, the transport fails (reset, a frame that does not decode),
\* or ctx is done; ctx is the context.WithTimeout(r.Context(), 10 s) made
\* once at line 67, before the loop
WsReadFailures == {"peer_closed", "transport_error", "deadline"}

\* lines 72-82: wsjson.Read fails and the handler returns
WsReadFail(why) ==
  /\ wsPc = "read"
  /\ wsPc' = "closed"
  /\ wsEnd' = why
  /\ UNCHANGED <<wsN, wsOut>>

\* handleWebSocket whose write goes out ahead of the frames still queued
WsStepWriteAhead(m, o, w) ==
  /\ wsPc = "read"
  /\ wsN < MaxLoopMsgs
  /\ wsN' = wsN + 1
  /\ IF w
       THEN /\ wsOut' = <<[req |-> wsN + 1, frame |-> Process(m, o)]>> \o wsOut
            /\ wsPc' = "read"
            /\ UNCHANGED wsEnd
       ELSE /\ wsPc' = "closed"
            /\ wsEnd' = "write_failed"
            /\ UNCHANGED wsOut

\* lines 70-91, one turn of the loop: wsjson.Read returns m, Process(m)
\* runs and wsjson.Write sends what it returned (w: the write succeeds)
WsStep(m, o, w) ==
  /\ wsPc = "read"
  /\ wsN < MaxLoopMsgs
  /\ wsN' = wsN + 1
  /\ IF w
       THEN /\ wsOut' = Append(wsOut, [req |-> wsN + 1, frame |-> Process(m, o)])
            /\ wsPc' = "read"
            /\ UNCHANGED wsEnd
       ELSE /\ wsPc' = "closed"
            /\ wsEnd' = "write_failed"
            /\ UNCHANGED wsOut

\* ---------------------------------------------------------------------
\* HTTPServer (internal/server/http_server.go)
\* ---------------------------------------------------------------------
\* a request's method and path
Methods == {"GET", "HEAD", "POST"}
Paths == {"/", "/health", "/api/uuid", "/api/list", "/api/nope", "/nope"}

\* the http.ResponseWriter of one request: code is the status line, 0 until
\* it is written; text and listing are the body
NewWriter == [code |-> 0, text |-> <<>>, listing |-> {}]

\* ResponseWriter.WriteHeader: the first call fixes the status
WriteHeader(w, c) == IF w.code = 0 THEN [w EXCEPT !.code = c] ELSE w

\* ResponseWriter.Write: writes the status 200 if none was written, then
\* the bytes, which reach the client if the connection still stands (ok)
Write(w, text, listing, ok) ==
  LET h == WriteHeader(w, 200) IN
    IF ok THEN [h EXCEPT !.text = @ \o text, !.listing = @ \cup listing] ELSE h

\* http.Error(w, msg, code)
Error(w, msg, c, ok) == Write(WriteHeader(w, c), <<msg>>, {}, ok)

\* json.NewEncoder(w).Encode(v): one Write, whose error it returns
EncodeTo(w, text, listing, ok) == [w |-> Write(w, text, listing, ok), failed |-> ~ok]

\* the "if err := Encode(...); err != nil { http.Error(..., 500) }" that
\* ends every handler
EncodeOr500(w, text, listing, ok) ==
  LET e == EncodeTo(w, text, listing, ok) IN
    IF e.failed THEN Error(e.w, "Failed to encode response", 500, ok) ELSE e.w

\* ToolService.ListTools: name and description of every tool
ListTools == {<<t, Description(t)>> : t \in tools}

\* what a handler leaves behind: the writer, the error of ExecuteTool, the
\* tools executed, whether ListTools was called
Served(w, err, ran, listed) == [w |-> w, err |-> err, ran |-> ran, listed |-> listed]

MethodNotAllowed(ok) ==
  Served(Error(NewWriter, "Method not allowed", 405, ok), <<>>, <<>>, FALSE)

\* the handler of /api/uuid without the check of the method
handleUUIDAnyMethod(method, o, ok) ==
  LET r == ExecuteTool("generate_uuid", o) IN
    IF r.err # <<>>
      THEN Served(Error(NewWriter, "Failed to generate UUID", 500, ok), r.err, r.ran, FALSE)
      ELSE Served(EncodeOr500(NewWriter, <<"uuid">>, {}, ok), <<>>, r.ran, FALSE)

\* handleUUID, lines 106-129
handleUUID(method, o, ok) ==
  IF method # "GET"
    THEN MethodNotAllowed(ok)
    ELSE LET r == ExecuteTool("generate_uuid", o) IN
      IF r.err # <<>>
        THEN Served(Error(NewWriter, "Failed to generate UUID", 500, ok), r.err, r.ran, FALSE)
        ELSE Served(EncodeOr500(NewWriter, <<"uuid">>, {}, ok), <<>>, r.ran, FALSE)

\* handleList, lines 131-144
handleList(method, ok) ==
  IF method # "GET"
    THEN MethodNotAllowed(ok)
    ELSE Served(EncodeOr500(NewWriter, <<>>, ListTools, ok), <<>>, <<>>, TRUE)

\* handleHealth, lines 147-163
handleHealth(method, ok) ==
  IF method # "GET"
    THEN MethodNotAllowed(ok)
    ELSE Served(EncodeOr500(WriteHeader(NewWriter, 200), <<"healthy">>, {}, ok),
                <<>>, <<>>, FALSE)

\* handleIndex, lines 166-188
handleIndex(method, ok) ==
  IF method # "GET"
    THEN MethodNotAllowed(ok)
    ELSE Served(EncodeOr500(WriteHeader(NewWriter, 200), <<"MCP Tools Server">>, {}, ok),
                <<>>, <<>>, FALSE)

\* the routes of NewHTTPServer, lines 66-76: /api/ goes to the API mux
\* with the prefix stripped, which knows /uuid and /list and answers 404
\* otherwise; /health is exact; "/" takes every other path
ServeHTTP(path, method, o, ok) ==
  CASE path = "/api/uuid" -> handleUUID(method, o, ok)
    [] path = "/api/list" -> handleList(method, ok)
    [] path = "/api/nope" ->
         Served(Error(NewWriter, "404 page not found", 404, ok), <<>>, <<>>, FALSE)
    [] path = "/health" -> handleHealth(method, ok)
    [] OTHER -> handleIndex(method, ok)

HttpInit == httpLog = <<>>

\* the server serves one request; o is what the tool yields if it is run
HttpServe(path, method, o, ok) ==
  /\ Len(httpLog) < MaxRequests
  /\ LET h == ServeHTTP(path, method, o, ok) IN
       httpLog' = Append(httpLog, [path |-> path, method |-> method,
                                   code |-> h.w.code, text |-> h.w.text,
                                   listing |-> h.w.listing, err |-> h.err,
                                   ran |-> h.ran, listed |-> h.listed])

\* ---------------------------------------------------------------------
\* SecurityManager (internal/server/jsonrpc_processor.go, lines 136-202)
\* ---------------------------------------------------------------------
\* the Origin header of a request: absent, or one of these values
NoHeader == [present |-> FALSE, v |-> ""]
OriginValues ==
  {"", "http://localhost:3000", "https://example.com", "http://EXAMPLE.com",
   "http://evil.test", "localhost", "null", "http://[::1", "://example.com"}
OriginHeaders == {NoHeader} \cup {[present |-> TRUE, v |-> o] : o \in OriginValues}

\* r.Header.Get("Origin"): the value, "" when there is no such header
HeaderGet(h) == IF h.present THEN h.v ELSE ""

\* url.Parse(origin) followed by URL.Hostname(): a bracket that is not
\* closed and a missing scheme are errors; a string without "//" is a
\* path, its host is empty; the port is not part of the hostname, and the
\* case of the host is kept
urlParse(origin) ==
  CASE origin = "http://localhost:3000" -> [err |-> FALSE, hostname |-> "localhost"]
    [] origin = "https://example.com" -> [err |-> FALSE, hostname |-> "example.com"]
    [] origin = "http://EXAMPLE.com" -> [err |-> FALSE, hostname |-> "EXAMPLE.com"]
    [] origin = "http://evil.test" -> [err |-> FALSE, hostname |-> "evil.test"]
    [] origin = "localhost" -> [err |-> FALSE, hostname |-> ""]
    [] origin = "null" -> [err |-> FALSE, hostname |-> ""]
    [] origin = "" -> [err |-> FALSE, hostname |-> ""]
    [] OTHER -> [err |-> TRUE, hostname |-> ""]

\* what ALLOWED_ORIGINS can hold, and the lists made of it
AllowedEntries == {"*", "localhost", "example.com"}
AllowedLists ==
  {<<>>} \cup {<<a>> : a \in AllowedEntries}
         \cup {<<a, b>> : a \in AllowedEntries, b \in AllowedEntries}

\* the loop of lines 186-191 that knows no wildcard
RECURSIVE IsAllowedNoWildcard(_, _)
IsAllowedNoWildcard(allowed, hostname) ==
  IF allowed = <<>> THEN FALSE
  ELSE IF Head(allowed) = hostname THEN TRUE
  ELSE IsAllowedNoWildcard(Tail(allowed), hostname)

\* the loop of lines 186-191: the first entry that is "*" or the hostname
\* ends it
RECURSIVE IsAllowed(_, _)
IsAllowed(allowed, hostname) ==
  IF allowed = <<>> THEN FALSE
  ELSE IF Head(allowed) = "*" \/ Head(allowed) = hostname THEN TRUE
  ELSE IsAllowed(Tail(allowed), hostname)

\* OriginCheckMiddleware(next) serving a request with header h: code is
\* the status http.Error wrote (0 when the middleware wrote nothing),
\* reached whether next.ServeHTTP was called
OriginCheckMiddleware(cfg, h) ==
  IF ~cfg.enableOriginCheck THEN [code |-> 0, reached |-> TRUE]
  ELSE LET origin == HeaderGet(h) IN
    IF origin = "" THEN [code |-> 403, reached |-> FALSE]
    ELSE LET u == urlParse(origin) IN
      IF u.err THEN [code |-> 403, reached |-> FALSE]
      ELSE IF ~IsAllowed(cfg.allowedOrigins, u.hostname)
        THEN [code |-> 403, reached |-> FALSE]
        ELSE [code |-> 0, reached |-> TRUE]

NoRequest == [header |-> NoHeader, code |-> 0, reached |-> FALSE, served |-> FALSE]

\* no SecurityManager yet
SmInit ==
  /\ sm = [made |-> FALSE, allowedOrigins |-> <<>>, enableOriginCheck |-> FALSE]
  /\ smLast = NoRequest

\* NewSecurityManager(allowedOrigins, enableOriginCheck, logger)
NewSecurityManager(allowed, enable) ==
  /\ ~sm.made
  /\ sm' = [made |-> TRUE, allowedOrigins |-> allowed, enableOriginCheck |-> enable]
  /\ UNCHANGED smLast

\* a request with Origin header h goes through the middleware
OriginRequest(h) ==
  /\ sm.made
  /\ LET r == OriginCheckMiddleware(sm, h) IN
       smLast' = [header |-> h, code |-> r.code, reached |-> r.reached, served |-> TRUE]
  /\ UNCHANGED sm

\* ---------------------------------------------------------------------
\* normalizeToolResult (internal/server/tool_service.go, lines 104-167)
\* ---------------------------------------------------------------------
\* the values a tool can return, as far as normalizeToolResult tells them
\* apart. k is the dynamic type of the interface value: "nil" (the nil
\* interface), "map" (map[string]interface{}), "bytes", "string", "int",
\* "slice", "struct", "pointer" (to a struct), "chan". isnil tells whether a
\* map, slice or pointer is nil. text is what the bytes of a []byte or
\* string are as JSON: "object", "array", "null", "number", "invalid". sc is
\* what a map, or the JSON object a text or struct stands for, holds under
\* "structuredContent": "absent", "map", "nilmap" (a nil map, in a Go map
\* only), "null" (nil), "slice", "string"
GoValue(k, isnil, text, sc) == [k |-> k, isnil |-> isnil, text |-> text, sc |-> sc]

JsonContents == {"absent", "map", "null", "slice", "string"}

ToolOutputs ==
  {GoValue("nil", TRUE, "", "absent"), GoValue("map", TRUE, "", "absent"),
   GoValue("int", FALSE, "", "absent"), GoValue("chan", FALSE, "", "absent"),
   GoValue("slice", FALSE, "", "absent"), GoValue("slice", TRUE, "", "absent"),
   GoValue("pointer", TRUE, "", "absent")}
  \cup {GoValue("map", FALSE, "", sc) : sc \in JsonContents \cup {"nilmap"}}
  \cup {GoValue(k, FALSE, "", sc) : k \in {"struct", "pointer"}, sc \in JsonContents}
  \cup {GoValue(k, FALSE, "object", sc) : k \in {"bytes", "string"}, sc \in JsonContents}
  \cup {GoValue(k, FALSE, t, "absent") :
          k \in {"bytes", "string"}, t \in {"array", "null", "number", "invalid"}}

\* what normalizeToolResult returns: err (the error is non-nil), nilmap
\* (the map returned is nil), shape: "empty" ({}), "same" (the map given,
\* or the object the text or struct stands for), "inner" (the map under
\* structuredContent), "items" ({"items": ...}), "value" ({"value": ...}),
\* "none" (with an error); text: what is under "value"
Normalized(nilmap, shape, text) ==
  [err |-> FALSE, nilmap |-> nilmap, shape |-> shape, text |-> text]
NormalizeError == [err |-> TRUE, nilmap |-> TRUE, shape |-> "none", text |-> ""]

\* lines 110-119: v is a map[string]interface{}
NormalizeMap(isnil, sc) ==
  IF sc # "absent"
    THEN IF sc \in {"map", "nilmap"}
      THEN Normalized(sc = "nilmap", "inner", "")
      ELSE Normalized(FALSE, "items", "")
    ELSE Normalized(isnil, "same", "")

\* json.Unmarshal(text, &mm) with mm a map, then json.Unmarshal(text, &aa)
\* with aa a slice, lines 139-146 and 156-163: an object fills mm; null is
\* accepted and leaves mm nil; an array fills aa; in each case of success
\* the result is returned; "next" says that neither succeeded
NormalizeJson(text, sc) ==
  IF text = "object" THEN NormalizeMap(FALSE, sc)
  ELSE IF text = "null" THEN NormalizeMap(TRUE, "absent")
  ELSE IF text = "array" THEN Normalized(FALSE, "items", "")
  ELSE Normalized(FALSE, "next", "")

\* json.Marshal(v) of the fallback, line 152: the JSON text kind it yields,
\* "error" for a value that cannot be marshalled
MarshalKind(v) ==
  IF v.k = "chan" THEN "error"
  ELSE IF v.k \in {"slice", "pointer"} /\ v.isnil THEN "null"
  ELSE IF v.k = "slice" THEN "array"
  ELSE IF v.k \in {"struct", "pointer"} THEN "object"
  ELSE IF v.k = "int" THEN "number"
  ELSE "string"

\* lines 151-166: the fallback, marshal then unmarshal; for a []byte (and
\* so for a string, which is passed on as []byte) json.Marshal gives the
\* base64 of the bytes as a JSON string
NormalizeFallback(v, text) ==
  IF MarshalKind(v) = "error" THEN NormalizeError
  ELSE LET r == NormalizeJson(MarshalKind(v), v.sc) IN
    IF r.shape = "next" THEN Normalized(FALSE, "value", text) ELSE r

\* normalizeToolResult(v)
normalizeToolResult(v) ==
  IF v.k = "nil" THEN Normalized(FALSE, "empty", "")
  ELSE IF v.k = "map" THEN NormalizeMap(v.isnil, v.sc)
  ELSE IF v.k \in {"bytes", "string"}
    THEN LET r == NormalizeJson(v.text, v.sc) IN
      IF r.shape = "next"
        THEN NormalizeFallback(GoValue("bytes", FALSE, v.text, v.sc),
                               IF v.k = "bytes" THEN "json of v" ELSE "json of []byte(v)")
        ELSE r
  ELSE NormalizeFallback(v, "json of v")

NormInit == normLog = <<>>

\* a tool has returned v and normalizeToolResult(v) runs (line 92)
NormalizeCall(v) ==
  /\ Len(normLog) < MaxRequests
  /\ normLog' = Append(normLog, [in |-> v, out |-> normalizeToolResult(v)])

\* ---------------------------------------------------------------------
\* Specifications
\* ---------------------------------------------------------------------
Init ==
  /\ SSEInit /\ RPCInit /\ ServerInit /\ WsInit /\ PushInit /\ EsInit /\ LingerInit
  /\ HttpInit
  /\ ShutdownInit
  /\ SmInit
  /\ NormInit

NextSSE ==
  /\ \/ \E id \in ClientIds : AddClient(id, MailboxCap)
     \/ \E id \in ClientIds : RemoveClient(id)
     \/ \E s \in Senders, id \in ClientIds, m \in Msgs : SendLookup(s, id, m)
     \/ \E s \in Senders : SendCheckAlive(s)
     \/ \E s \in Senders : SendEnqueue(s)
     \/ \E s \in Senders : SendTimeout(s)
     \/ \E s \in Senders : SendReturn(s)
     \/ \E m \in Msgs : BroadcastBegin(m)
     \/ \E id \in ClientIds : BroadcastStep(id)
     \/ BroadcastEnd
     \/ \E id \in ClientIds : Receive(id)
  /\ UNCHANGED rpcVars
  /\ UNCHANGED srvVars
  /\ UNCHANGED wsVars
  /\ UNCHANGED pushVars
  /\ UNCHANGED esVars
  /\ UNCHANGED lingerVars
  /\ UNCHANGED httpVars
  /\ UNCHANGED sdVars
  /\ UNCHANGED smVars
  /\ UNCHANGED normVars

\* the first identifier uuid.NewString hands out
FirstClient == 1

NextMailbox ==
  /\ \/ \E id \in ClientIds : AddClient(id, ClientSendCap)
     \/ \E id \in ClientIds : RemoveClient(id)
     \/ \E s \in Senders, m \in Msgs : SendLookup(s, FirstClient, m)
     \/ \E s \in Senders : SendCheckAlive(s)
     \/ \E s \in Senders : SendEnqueue(s)
     \/ \E s \in Senders : SendTimeout(s)
     \/ \E s \in Senders : SendReturn(s)
  /\ UNCHANGED rpcVars
  /\ UNCHANGED srvVars
  /\ UNCHANGED wsVars
  /\ UNCHANGED pushVars
  /\ UNCHANGED esVars
  /\ UNCHANGED lingerVars
  /\ UNCHANGED httpVars
  /\ UNCHANGED sdVars
  /\ UNCHANGED smVars
  /\ UNCHANGED normVars

NextRPC ==
  /\ \/ StartDecodeFail
     \/ \E m \in InMessages, ord \in RangeOrders, w \in BOOLEAN : StartInit(m, ord, w)
     \/ LoopSelect
     \/ LoopDecodeFail
     \/ \E m \in InMessages, w \in BOOLEAN :
          \E o \in OutcomesFor(m) : LoopStep(m, o, w)
     \/ Cancel
  /\ UNCHANGED sseVars
  /\ UNCHANGED srvVars
  /\ UNCHANGED wsVars
  /\ UNCHANGED pushVars
  /\ UNCHANGED esVars
  /\ UNCHANGED lingerVars
  /\ UNCHANGED httpVars
  /\ UNCHANGED sdVars
  /\ UNCHANGED smVars
  /\ UNCHANGED normVars

NextServer ==
  /\ \/ ServerStart
     \/ \E sv \in OtherServers : ServerListen(sv)
     \/ \E sv \in OtherServers : ServerFail(sv)
     \/ McpReturn
     \/ ServerErr
     \/ \E ok \in BOOLEAN : ServerSignal(ok)
     \/ StdioRuns /\ StartDecodeFail /\ UNCHANGED srvVars
     \/ /\ StdioRuns
        /\ \E m \in ServerMessages, ord \in RangeOrders, w \in BOOLEAN : StartInit(m, ord, w)
        /\ UNCHANGED srvVars
     \/ StdioRuns /\ LoopSelect /\ UNCHANGED srvVars
     \/ StdioRuns /\ LoopDecodeFail /\ UNCHANGED srvVars
     \/ /\ StdioRuns
        /\ \E m \in ServerMessages, w \in BOOLEAN :
             \E o \in OutcomesFor(m) : LoopStep(m, o, w)
        /\ UNCHANGED srvVars
  /\ UNCHANGED sseVars
  /\ UNCHANGED wsVars
  /\ UNCHANGED pushVars
  /\ UNCHANGED esVars
  /\ UNCHANGED lingerVars
  /\ UNCHANGED httpVars
  /\ UNCHANGED sdVars
  /\ UNCHANGED smVars
  /\ UNCHANGED normVars

\* one stdio connection and one WebSocket connection, each served by its loop
NextConn ==
  /\ \/ StartDecodeFail /\ UNCHANGED wsVars
     \/ /\ \E m \in ServerMessages, ord \in RangeOrders, w \in BOOLEAN : StartInit(m, ord, w)
        /\ UNCHANGED wsVars
     \/ LoopSelect /\ UNCHANGED wsVars
     \/ LoopDecodeFail /\ UNCHANGED wsVars
     \/ /\ \E m \in ServerMessages, w \in BOOLEAN :
             \E o \in OutcomesFor(m) : LoopStep(m, o, w)
        /\ UNCHANGED wsVars
     \/ (\E ok \in BOOLEAN : WsAccept(ok)) /\ UNCHANGED rpcVars
     \/ (\E why \in WsReadFailures : WsReadFail(why)) /\ UNCHANGED rpcVars
     \/ /\ \E m \in ServerMessages, w \in BOOLEAN :
             \E o \in ProcessOutcomesFor(m) : WsStep(m, o, w)
        /\ UNCHANGED rpcVars
  /\ UNCHANGED sseVars
  /\ UNCHANGED srvVars
  /\ UNCHANGED pushVars
  /\ UNCHANGED esVars
  /\ UNCHANGED lingerVars
  /\ UNCHANGED httpVars
  /\ UNCHANGED sdVars
  /\ UNCHANGED smVars
  /\ UNCHANGED normVars

\* the broadcast manager as a reader of a mailbox sees it: clients come
\* and go, two payloads are broadcast, the reader of the first client
\* receives while the readers of the other clients are stalled
NextPush ==
  /\ \/ (\E id \in ClientIds : AddClient(id, MailboxCap)) /\ UNCHANGED pushVars
     \/ (\E id \in ClientIds : RemoveClient(id)) /\ UNCHANGED pushVars
     \/ (\E m \in Payloads : BroadcastBegin(m)) /\ UNCHANGED pushVars
     \/ (\E id \in ClientIds : BroadcastStep(id)) /\ UNCHANGED pushVars
     \/ BroadcastEnd /\ UNCHANGED pushVars
     \/ Read(FirstClient)
  /\ UNCHANGED rpcVars
  /\ UNCHANGED srvVars
  /\ UNCHANGED wsVars
  /\ UNCHANGED esVars
  /\ UNCHANGED lingerVars
  /\ UNCHANGED httpVars
  /\ UNCHANGED sdVars
  /\ UNCHANGED smVars
  /\ UNCHANGED normVars

\* the broadcast manager
Spec == Init /\ [][NextSSE]_vars
\* the registry with mailboxes of the capacity of the code, the first
\* client's mailbox being filled by Send
SpecMailbox == Init /\ [][NextMailbox]_vars
\* the stdio server fed with requests whose "jsonrpc" key varies
NextEnvelope ==
  /\ \/ StartDecodeFail
     \/ \E m \in EnvelopeMessages, ord \in RangeOrders, w \in BOOLEAN : StartInit(m, ord, w)
     \/ LoopSelect
     \/ LoopDecodeFail
     \/ \E m \in EnvelopeMessages, w \in BOOLEAN :
          \E o \in OutcomesFor(m) : LoopStep(m, o, w)
     \/ Cancel
  /\ UNCHANGED sseVars
  /\ UNCHANGED srvVars
  /\ UNCHANGED wsVars
  /\ UNCHANGED pushVars
  /\ UNCHANGED esVars
  /\ UNCHANGED lingerVars
  /\ UNCHANGED httpVars
  /\ UNCHANGED sdVars
  /\ UNCHANGED smVars
  /\ UNCHANGED normVars

SpecEnvelope == Init /\ [][NextEnvelope]_vars
\* a step of the event streams and the manager leaves the rest alone
StreamOnly == UNCHANGED <<rpcVars, srvVars, wsVars, pushVars, lingerVars, httpVars, sdVars, smVars, normVars>>

\* the event streams: clients open a stream, messages are broadcast, the
\* tasks emit them, connections end
NextStream ==
  /\ \/ \E id \in ClientIds : EsOpen(id)
     \/ \E id \in ClientIds : EsDisconnect(id)
     \/ \E id \in ClientIds, w \in BOOLEAN : EsEmit(id, w)
     \/ \E id \in ClientIds : EsObserveDone(id)
     \/ \E id \in ClientIds : EsTeardown(id)
     \/ (\E m \in Msgs : BroadcastBegin(m)) /\ UNCHANGED esVars
     \/ (\E id \in ClientIds : BroadcastStep(id)) /\ UNCHANGED esVars
     \/ BroadcastEnd /\ UNCHANGED esVars
  /\ StreamOnly

\* the scheduler runs every goroutine that can take a step: a Broadcast
\* goes through its loop and releases the read lock, a task that can see
\* the disconnect leaves its select, and a task waiting in mu.Lock() gets
\* the lock (a blocked Lock keeps new readers out of a sync.RWMutex)
SpecStream ==
  /\ Init
  /\ [][NextStream]_vars
  /\ WF_vars((\E id \in ClientIds : BroadcastStep(id)) /\ UNCHANGED esVars /\ StreamOnly)
  /\ WF_vars(BroadcastEnd /\ UNCHANGED esVars /\ StreamOnly)
  /\ \A id \in ClientIds : WF_vars(EsObserveDone(id) /\ StreamOnly)
  /\ \A id \in ClientIds : SF_vars(EsTeardown(id) /\ StreamOnly)

\* a step of the stdio server leaves the rest alone
StdioOnly == UNCHANGED <<sseVars, srvVars, wsVars, pushVars, esVars, httpVars, sdVars, smVars, normVars>>

\* the stdio server and the moment its caller cancels ctx
NextLinger ==
  /\ \/ StartDecodeFail /\ UNCHANGED lingerVars
     \/ /\ \E m \in ServerMessages, ord \in RangeOrders, w \in BOOLEAN : StartInit(m, ord, w)
        /\ UNCHANGED lingerVars
     \/ LoopSelect /\ UNCHANGED lingerVars
     \/ LoopDecodeFail /\ UNCHANGED lingerVars
     \/ /\ \E m \in ServerMessages, w \in BOOLEAN :
             \E o \in OutcomesFor(m) : LoopStep(m, o, w)
        /\ UNCHANGED lingerVars
     \/ Cancel /\ cancelAt' = nLoop
  /\ StdioOnly

\* the goroutine of Start runs: the select is taken, and the read it
\* blocks in returns (a message, the end of the input or an error)
SpecLinger ==
  /\ Init
  /\ [][NextLinger]_vars
  /\ WF_vars(/\ \/ StartDecodeFail
                \/ \E m \in ServerMessages, ord \in RangeOrders, w \in BOOLEAN :
                     StartInit(m, ord, w)
             /\ UNCHANGED lingerVars
             /\ StdioOnly)
  /\ WF_vars(LoopSelect /\ UNCHANGED lingerVars /\ StdioOnly)
  /\ WF_vars(/\ \/ LoopDecodeFail
                \/ \E m \in ServerMessages, w \in BOOLEAN :
                     \E o \in OutcomesFor(m) : LoopStep(m, o, w)
             /\ UNCHANGED lingerVars
             /\ StdioOnly)

\* the broadcast manager and the readers
SpecPush == Init /\ [][NextPush]_vars

\* the HTTP server alone: requests of every method to every path
NextRest ==
  /\ \E path \in Paths, method \in Methods, ok \in BOOLEAN :
       \E o \in ExecOutcomes("generate_uuid") : HttpServe(path, method, o, ok)
  /\ UNCHANGED <<sseVars, rpcVars, srvVars, wsVars, pushVars, esVars, lingerVars, sdVars,
                 smVars, normVars>>

SpecRest == Init /\ [][NextRest]_vars

\* Server.shutdown called on a Server of any make-up
NextShutdown ==
  /\ \/ \E present \in SUBSET OtherServers, started \in SUBSET OtherServers :
          ShutdownCall(present, started)
     \/ \E fails \in BOOLEAN : ShutdownStop(fails)
  /\ UNCHANGED <<sseVars, rpcVars, srvVars, wsVars, pushVars, esVars, lingerVars, httpVars,
                 smVars, normVars>>

SpecShutdown == Init /\ [][NextShutdown]_vars

\* a SecurityManager of any configuration and the requests it sees
NextOrigin ==
  /\ \/ \E allowed \in AllowedLists, enable \in BOOLEAN : NewSecurityManager(allowed, enable)
     \/ \E h \in OriginHeaders : OriginRequest(h)
  /\ UNCHANGED <<sseVars, rpcVars, srvVars, wsVars, pushVars, esVars, lingerVars, httpVars,
                 sdVars, normVars>>

SpecOrigin == Init /\ [][NextOrigin]_vars

\* normalizeToolResult applied to the values tools can return
NextNormalize ==
  /\ \E v \in ToolOutputs : NormalizeCall(v)
  /\ UNCHANGED <<sseVars, rpcVars, srvVars, wsVars, pushVars, esVars, lingerVars, httpVars,
                 sdVars, smVars>>

SpecNormalize == Init /\ [][NextNormalize]_vars
\* the stdio server
SpecRPC == Init /\ [][NextRPC]_vars
\* the process: the combined server with its stdio server
SpecServer == Init /\ [][NextServer]_vars
\* a stdio connection and a WebSocket connection
SpecConn == Init /\ [][NextConn]_vars

\* ---------------------------------------------------------------------
\* Properties of the broadcast manager (specification Spec)
\* ---------------------------------------------------------------------

\* C1: Broadcast never blocks. While Broadcast ranges over the registry
\* (in a process that is running, no goroutine having panicked), the turn for every client still to visit can be taken at once, whatever
\* the state of its mailbox; a turn on a client whose mailbox is full leaves
\* that mailbox as it is and skips the client, a turn on a client whose
\* mailbox has space appends the message to it; the turn never touches
\* another client's mailbox.
C1_BroadcastNeverBlocks ==
  /\ []((bcPc = "iter" /\ ~panicked) =>
          /\ \A id \in bcTodo : ENABLED BroadcastStep(id)
          /\ bcTodo = {} => ENABLED BroadcastEnd)
  /\ [][\A id \in ClientIds :
          (bcPc = "iter" /\ id \in bcTodo /\ id \notin bcTodo') =>
            /\ IF Len(send[id]) >= MailboxCap
                 THEN send'[id] = send[id] /\ id \in bcSkipped' /\ id \notin bcSent'
                 ELSE send'[id] = Append(send[id], bcMsg) /\ id \in bcSent'
            /\ \A other \in ClientIds \ {id} : send'[other] = send[other]
            /\ ~panicked']_vars

\* a Broadcast over two registered clients has visited both: it skipped
\* one, whose mailbox is full, and delivered to the other
C1_Witness ==
  /\ bcPc = "iter"
  /\ bcTodo = {}
  /\ Cardinality(clients) >= 2
  /\ \E a \in bcSkipped, b \in bcSent :
       /\ a # b
       /\ Len(send[a]) = MailboxCap
       /\ Len(send[b]) >= 1
       /\ send[b][Len(send[b])] = bcMsg

\* C2: a Send that is called with an identifier that is not in the registry
\* (removed by RemoveClient, or never registered) returns at once with the
\* "not found" / "closed" error, enqueues nothing and does not panic.
C2_SendToRemovedFails ==
  [][\A s \in Senders :
       (sPc[s] = "idle" /\ sPc'[s] # "idle" /\ sId'[s] \notin clients) =>
         /\ sPc'[s] = "done"
         /\ sRes'[s] \in {"not_found", "closed"}
         /\ send' = send
         /\ ~panicked']_vars

\* a Send to a client RemoveClient has removed returned "not found"
C2_Witness ==
  \E s \in Senders :
    /\ sPc[s] = "done"
    /\ sRes[s] = "not_found"
    /\ sId[s] \in used
    /\ closed[sId[s]]
    /\ ~panicked

\* C3: RemoveClient is idempotent. A RemoveClient call that finds no entry
\* (the identifier was removed before, or never registered) changes neither
\* the registry nor any client and closes nothing; no mailbox is ever closed
\* twice, a removed client's mailbox has been closed exactly once, and no
\* close panics.
C3_RemoveClientIdempotent ==
  /\ [](\A id \in ClientIds :
          /\ closeCount[id] <= 1
          /\ closed[id] <=> closeCount[id] = 1
          /\ id \in used \ clients => closeCount[id] = 1)
  /\ [][(rmLast' = "absent" /\ rmLast # "absent") =>
          /\ UNCHANGED <<used, clients, isAlive, send, closed, closeCount>>
          /\ ~panicked']_vars

\* every identifier has been registered and removed, and the latest
\* RemoveClient call (made on one of these removed identifiers) found nothing
C3_Witness ==
  /\ rmLast = "absent"
  /\ used = ClientIds
  /\ clients = {}
  /\ \A id \in ClientIds : closed[id] /\ closeCount[id] = 1
  /\ ~panicked

\* C4: registry invariant. Every client in the registry map is live and its
\* mailbox is open; a client whose mailbox is closed is not in the registry.
\* (RemoveClient changes the three together under mu.Lock(); the states are
\* those seen by a goroutine that takes the lock.)
C4_RegistryInvariant ==
  /\ \A id \in clients : id \in used /\ isAlive[id] /\ ~closed[id]
  /\ \A id \in ClientIds : closed[id] => id \notin clients

\* one client is registered while another has been removed
C4_Witness ==
  \E a \in clients, b \in used \ clients :
    /\ isAlive[a] /\ ~closed[a]
    /\ closed[b] /\ ~isAlive[b]

\* ---------------------------------------------------------------------
\* Properties of the dispatcher (specification SpecRPC)
\* ---------------------------------------------------------------------
\* the object written for r has "jsonrpc": "2.0" and one of result / error
WellFormed(r) ==
  /\ r.jsonrpc = "2.0"
  /\ ("result" \in Encode(r)) # ("error" \in Encode(r))

\* the step taken is handleMessage on the message now in lastMsg
Handled == lastStep' = "handle" /\ nLoop' = nLoop + 1

\* C5: for every message with an id that handleMessage receives, whatever
\* its method, exactly one response is produced, a well-formed result or a
\* well-formed error.
C5_EveryRequestAnswered ==
  (lastStep = "handle" /\ HasId(lastMsg)) =>
    /\ Len(lastOut) = 1
    /\ WellFormed(lastOut[1])

\* C6: a message without id never gets a response, whatever its method.
C6_NotificationUnanswered ==
  (lastStep = "handle" /\ ~HasId(lastMsg)) => lastOut = <<>>

\* C7: every response object built by HandleInitialize, HandleToolsList,
\* HandleToolsCall and CreateErrorResponse has jsonrpc "2.0" and, once
\* encoded, exactly one of the keys result and error; one with an error has
\* no result.
C7_ExactlyOneOfResultError ==
  \A r \in Range(out) \cup Range(lastOut) :
    /\ WellFormed(r)
    /\ "error" \in Encode(r) => "result" \notin Encode(r)

\* the initialize result, a tool result and an error response were written
C7_Witness ==
  /\ Len(out) = 3
  /\ out[1].Result.kind = "initialize" /\ out[1].Error.nil
  /\ \E i, j \in 2..3 :
       /\ out[i].Result.kind = "tool" /\ out[i].Error.nil
       /\ ~out[j].Error.nil /\ out[j].Result.nil

\* C8: a message without method gets the error -32600 when it has an id;
\* when it has none it gets no response and is dropped silently, the
\* dispatcher reporting no failure.
C8_MissingMethod ==
  (lastStep = "handle" /\ lastMsg.method = Absent) =>
    IF HasId(lastMsg)
      THEN /\ Len(lastOut) = 1
           /\ ~lastOut[1].Error.nil
           /\ lastOut[1].Error.code = -32600
           /\ "result" \notin Encode(lastOut[1])
      ELSE /\ lastOut = <<>>
           /\ lastErr = NoErr

KnownMethods == {"initialize", "initialized", "tools/list", "tools/call"}

\* C9: a message whose method is a name other than initialize, initialized,
\* tools/list and tools/call is answered with the error -32601 "Method not
\* found" when it has an id (nothing but that response is written); when it
\* has none, nothing is produced or written and handleMessage returns nil.
C9_UnknownMethod ==
  [][(Handled /\ lastMsg'.method.k = "string"
              /\ lastMsg'.method.v \notin KnownMethods) =>
       IF HasId(lastMsg')
         THEN /\ Len(lastOut') = 1
              /\ lastOut'[1].jsonrpc = "2.0"
              /\ lastOut'[1].id = lastMsg'.id
              /\ Encode(lastOut'[1]) = {"jsonrpc", "id", "error"}
              /\ lastOut'[1].Error.code = -32601
              /\ lastOut'[1].Error.message = <<"Method not found">>
              /\ out' \in {out, Append(out, lastOut'[1])}
         ELSE /\ lastOut' = <<>>
              /\ out' = out
              /\ lastErr' = NoErr
              /\ pc' = "select"]_vars

\* an unknown method with an id was answered -32601, then an unknown
\* notification was handled without output and the loop goes on
C9_Witness ==
  /\ lastStep = "handle"
  /\ nLoop = 2
  /\ lastMsg.method = Str("foo")
  /\ ~HasId(lastMsg)
  /\ lastOut = <<>>
  /\ lastErr = NoErr
  /\ pc = "select"
  /\ Len(out) = 2
  /\ out[2].Error.code = -32601

\* C10: a tools/call whose params name a tool that is not in the directory
\* is answered with an error of code -32000 and no result, and no tool is
\* executed.
C10_UnknownTool ==
  [][(Handled /\ lastMsg'.method = Str("tools/call")
              /\ lastMsg'.params.k = "object"
              /\ lastMsg'.params.name.k = "string"
              /\ lastMsg'.params.name.v \notin ToolNames) =>
       /\ Len(lastOut') = 1
       /\ "error" \in Encode(lastOut'[1])
       /\ "result" \notin Encode(lastOut'[1])
       /\ lastOut'[1].Error.code = -32000
       /\ execLog' = execLog]_vars

\* the call of the unknown tool "nope" was answered -32000 after a tool ran
C10_Witness ==
  /\ lastStep = "handle"
  /\ lastMsg.method = Str("tools/call")
  /\ lastMsg.params = ObjParams(Str("nope"))
  /\ Len(lastOut) = 1
  /\ lastOut[1].Error.code = -32000
  /\ lastOut[1].Error.message = <<"Tool execution error: ", "tool not found: ", "nope">>
  /\ lastOut[1].Result.nil
  /\ execLog = <<"generate_uuid">>

\* C11: a tools/call whose params have no name, or a name that is not a
\* string (or that has no params object at all), is answered with an error
\* of code -32602 and no result, and no tool is executed.
C11_MissingToolName ==
  [][(Handled /\ lastMsg'.method = Str("tools/call")
              /\ (lastMsg'.params.k # "object" \/ lastMsg'.params.name.k # "string")) =>
       /\ Len(lastOut') = 1
       /\ Encode(lastOut'[1]) = {"jsonrpc", "id", "error"}
       /\ lastOut'[1].Error.code = -32602
       /\ execLog' = execLog]_vars

\* a tools/call whose name is a number was answered -32602 "Invalid params:
\* Missing tool name" and the tool run before it stays the only one run
C11_Witness ==
  /\ lastStep = "handle"
  /\ lastMsg.method = Str("tools/call")
  /\ lastMsg.params = ObjParams(Num("7"))
  /\ Len(lastOut) = 1
  /\ lastOut[1].Error.code = -32602
  /\ lastOut[1].Error.message = <<"Invalid params: Missing tool name">>
  /\ lastOut[1].Result.nil
  /\ execLog = <<"generate_uuid">>

\* C12: every response carries the id of the message it answers, the same
\* value of the same type (the number 1 and the string "1" are different
\* ids; a message without id reads as id nil), whether the response is the
\* initialize result, a tools/list result, a tool result or an error.
C12_IdEchoed ==
  (lastStep \in {"init", "handle"}) =>
    \A i \in DOMAIN lastOut :
      /\ lastOut[i].id = IdOf(lastMsg)
      /\ HasId(lastMsg) => lastOut[i].id = lastMsg.id

\* the initialize result went out with the numeric id, a tool result with
\* the string id, and the latest response is an error with the string id
C12_Witness ==
  /\ lastStep = "handle"
  /\ Len(out) = 3
  /\ out[1].Result.kind = "initialize" /\ out[1].id = Num("1")
  /\ out[2].Result.kind = "tool" /\ out[2].id = Str("1")
  /\ lastMsg.id = Str("1")
  /\ lastOut = <<out[3]>>
  /\ ~out[3].Error.nil /\ out[3].id = Str("1")

\* the tool list carried by response r
ToolList(r) == r.Result.v

\* C13: the tool list of every tools/list response and of every initialize
\* response has exactly one entry per tool of the directory and no other
\* entry, whatever the order, and each entry carries the name and the
\* description of its tool.
C13_ToolListComplete ==
  \A r \in Range(out) \cup Range(lastOut) :
    (~r.Result.nil /\ r.Result.kind \in {"initialize", "tools"}) =>
      /\ Len(ToolList(r)) = Cardinality(ToolNames)
      /\ {e[1] : e \in Range(ToolList(r))} = ToolNames
      /\ \A t \in ToolNames :
           Cardinality({i \in DOMAIN ToolList(r) : ToolList(r)[i][1] = t}) = 1
      /\ \A e \in Range(ToolList(r)) : e[2] = Description(e[1])

\* the initialize response and a tools/list response were written, the
\* tools listed in two different orders
C13_Witness ==
  /\ Len(out) >= 2
  /\ out[1].Result.kind = "initialize"
  /\ out[2].Result.kind = "tools"
  /\ ToolList(out[1]) # ToolList(out[2])
  /\ Len(ToolList(out[2])) = 2
  /\ ToolList(out[2])[1] = <<"generate_uuid", "Generates a random UUID v4 string">>

\* C14: when the tool a tools/call names is executed and fails, the response
\* is an error of code -32000 whose message is the tool's error message, and
\* it has no result.
C14_ToolFailureMessage ==
  [][(Handled /\ lastToolErr' # NoErr) =>
       /\ Len(lastOut') = 1
       /\ "error" \in Encode(lastOut'[1])
       /\ "result" \notin Encode(lastOut'[1])
       /\ lastOut'[1].Error.code = -32000
       /\ lastOut'[1].Error.message = lastToolErr']_vars

\* C14 as amended: when the tool a tools/call names is executed and fails,
\* the response is an error of code -32000 whose message is "Tool execution
\* error: " followed by the tool's error message, and it has no result.
C14_ToolFailureMessagePrefixed ==
  [][(Handled /\ lastToolErr' # NoErr) =>
       /\ Len(lastOut') = 1
       /\ "error" \in Encode(lastOut'[1])
       /\ "result" \notin Encode(lastOut'[1])
       /\ lastOut'[1].Error.code = -32000
       /\ lastOut'[1].Error.message = <<"Tool execution error: ">> \o lastToolErr']_vars

\* failing_tool was executed, failed with "mock execution error" and the
\* call was answered -32000
C14_Witness ==
  /\ lastStep = "handle"
  /\ lastMsg.method = Str("tools/call")
  /\ lastMsg.params = ObjParams(Str("failing_tool"))
  /\ lastToolErr = <<"mock execution error">>
  /\ execLog # <<>> /\ execLog[Len(execLog)] = "failing_tool"
  /\ Len(lastOut) = 1
  /\ lastOut[1].Error.code = -32000
  /\ lastOut[1].Error.message = <<"Tool execution error: ", "mock execution error">>
  /\ lastOut[1].Result.nil

\* a message that is a protocol error (no method, unknown method, bad
\* tools/call params) or whose tool failed with error toolErr
IsErrorCase(m, toolErr) ==
  \/ m.method.k # "string"
  \/ m.method.v \notin KnownMethods
  \/ /\ m.method = Str("tools/call")
     /\ \/ m.params.k # "object"
        \/ m.params.name.k # "string"
        \/ m.params.name.v \notin ToolNames
        \/ toolErr # NoErr

\* the step wrote every response it produced (stdout took the write)
Written == out' = out \o lastOut'

\* C15: a protocol error or a tool execution error is never fatal to the
\* connection. After a message with a missing method (with or without id),
\* an unknown method, bad tools/call params or a failing tool has been
\* handled (its response, if any, written), Start has not returned: the loop
\* is at its next turn and goes on decoding and answering messages.
C15_ErrorsNotFatal ==
  [][(Handled /\ IsErrorCase(lastMsg', lastToolErr') /\ Written) =>
       /\ pc' = "select"
       /\ lastErr' = NoErr]_vars

\* ---------------------------------------------------------------------
\* Properties of the process (specification SpecServer)
\* ---------------------------------------------------------------------

\* C16: a transport error on the stdio connection (a decode failure, the
\* end of the input) ends only the stdio loop. While nothing else happens to
\* the process (no signal, no failure of another server), Server.Start stays
\* in its select, the process runs on and none of the HTTP REST, streamable
\* HTTP and WebSocket servers is stopped.
C16_TransportErrorLocal ==
  (lastStep = "decodefail" /\ srvCause.from \in {"none", "mcp"}) =>
    /\ exit = "none"
    /\ srvPc = "wait"
    /\ \A sv \in OtherServers : srv[sv] # "stopped"

\* ---------------------------------------------------------------------
\* Properties of the stdio loop (specification SpecRPC)
\* ---------------------------------------------------------------------

\* C17: the dispatch of the message loop routes a message by its method:
\* tools/list to HandleToolsList (a tool list result), tools/call with a
\* params object to HandleToolsCall (a tool result, or its -32602 / -32000
\* error), and initialize to HandleInitialize; an initialize request with an
\* id that arrives in the loop is answered with an initialize result that
\* echoes its id, not with an error.
C17_DispatchRoutes ==
  [][Handled =>
       /\ (lastMsg'.method = Str("initialize") /\ HasId(lastMsg')) =>
            /\ Len(lastOut') = 1
            /\ Encode(lastOut'[1]) = {"jsonrpc", "id", "result"}
            /\ lastOut'[1].Result.kind = "initialize"
            /\ lastOut'[1].id = lastMsg'.id
       /\ lastMsg'.method = Str("tools/list") =>
            /\ Len(lastOut') = 1
            /\ Encode(lastOut'[1]) = {"jsonrpc", "id", "result"}
            /\ lastOut'[1].Result.kind = "tools"
       /\ (lastMsg'.method = Str("tools/call") /\ lastMsg'.params.k = "object") =>
            /\ Len(lastOut') = 1
            /\ \/ lastOut'[1].Result.kind = "tool"
               \/ lastOut'[1].Error.code \in {-32602, -32000}]_vars

\* C18: on stdio, initialize must be the first message. If the first
\* message decoded has method initialize, Start produces the initialize
\* response with that message's id as its first output and, the response
\* written, enters the message loop (if stdout refuses the write, nothing is
\* written and Start returns). If the first message has another method, or
\* none, Start returns an error, writes nothing and handles no further
\* message. No message is handled by the loop before the initialize response
\* is out, and once Start has returned nothing more is read or written.
C18_InitializeFirst ==
  /\ [][(pc = "start" /\ lastStep' = "init") =>
          IF lastMsg'.method = Str("initialize")
            THEN /\ Len(lastOut') = 1
                 /\ Encode(lastOut'[1]) = {"jsonrpc", "id", "result"}
                 /\ lastOut'[1].Result.kind = "initialize"
                 /\ lastOut'[1].id = IdOf(lastMsg')
                 /\ IF Written
                      THEN out' = lastOut' /\ pc' = "select" /\ lastErr' = NoErr
                      ELSE out' = <<>> /\ pc' = "stopped" /\ lastErr' # NoErr
            ELSE /\ lastOut' = <<>>
                 /\ out' = <<>>
                 /\ lastErr' = <<"expected initialize request">>
                 /\ pc' = "stopped"]_vars
  /\ [](nLoop > 0 =>
          /\ Len(out) >= 1
          /\ out[1].Result.kind = "initialize"
          /\ outReq[1] = 0)
  /\ [][pc = "stopped" => (pc' = "stopped" /\ out' = out /\ nLoop' = nLoop)]_vars

\* the initialize request with the string id was answered first, and the
\* loop then handled a message
C18_Witness ==
  /\ nLoop = 1
  /\ lastStep = "handle"
  /\ Len(out) = 2
  /\ out[1].Result.kind = "initialize"
  /\ out[1].id = Str("1")
  /\ outReq = <<0, 1>>

\* C29: the tool directory is read-only after construction. In every
\* state the stdio server reaches, whatever it has been asked (initialize,
\* tools/list, tools/call of a tool that succeeds, fails or does not exist,
\* messages answered with an error), the directory holds the tool names
\* NewToolService put into it.
C29_DirectoryReadOnly == tools = ToolNames

\* the loop has run a tool that failed and has then listed the tools
C29_Witness ==
  /\ nLoop = 2
  /\ execLog = <<"failing_tool">>
  /\ lastMsg.method = Str("tools/list")
  /\ Len(lastOut) = 1
  /\ lastOut[1].Result.kind = "tools"
  /\ Len(lastOut[1].Result.v) = Cardinality(ToolNames)

\* ---------------------------------------------------------------------
\* Properties of a connection (specification SpecConn)
\* ---------------------------------------------------------------------
StrictlyIncreasing(q) == \A i, j \in DOMAIN q : i < j => q[i] < q[j]

\* q continues p: p is the beginning of q
Extends(q, p) == Len(q) >= Len(p) /\ \A i \in DOMAIN p : q[i] = p[i]

\* C19: within one stdio connection and within one WebSocket connection the
\* responses go out in the order in which the requests were decoded. What
\* is written is only ever appended to, the request numbers of the responses
\* written increase along the output, and a response written by a step
\* answers the request that step has read: when request k+1 is read, the
\* responses to the requests up to k are already out and none is written
\* afterwards.
C19_ResponsesInOrder ==
  /\ [](/\ StrictlyIncreasing(outReq)
        /\ StrictlyIncreasing([i \in DOMAIN wsOut |-> wsOut[i].req])
        /\ Len(outReq) = Len(out)
        /\ \A i \in DOMAIN outReq : outReq[i] <= nLoop
        /\ \A i \in DOMAIN wsOut : wsOut[i].req <= wsN)
  /\ [][/\ Extends(out', out) /\ Extends(outReq', outReq)
        /\ \A i \in DOMAIN outReq' \ DOMAIN outReq : outReq'[i] = nLoop'
        /\ Extends(wsOut', wsOut)
        /\ \A i \in DOMAIN wsOut' \ DOMAIN wsOut : wsOut'[i].req = wsN']_vars

\* on stdio the first request of the loop got no response and the second
\* was answered; on the WebSocket two requests were answered in turn
C19_Witness ==
  /\ nLoop = 2
  /\ outReq = <<0, 2>>
  /\ wsN = 2
  /\ Len(wsOut) = 2
  /\ wsOut[1].req = 1 /\ wsOut[2].req = 2
  /\ wsOut[1].frame # <<>> /\ wsOut[2].frame # <<>>

\* C28: a WebSocket connection is held open for the session. The handler
\* returns, and so closes the connection, only when the client has closed
\* it or the transport has failed (a read or a write that fails for a
\* reason that is not the server's own doing); it never ends the session by
\* itself.
C28_SessionHeldOpen ==
  [][(wsPc = "read" /\ wsPc' = "closed") =>
       wsEnd' \in {"peer_closed", "transport_error", "write_failed"}]_vars

\* ---------------------------------------------------------------------
\* Properties of the registry (specification SpecMailbox)
\* ---------------------------------------------------------------------

\* C20: AddClient always succeeds. Whenever the process runs, AddClient can
\* be taken (it has no failing path; uuid.NewString is taken to return an
\* identifier it never returned before). The client it returns has an
\* identifier that is not in the registry, an empty open mailbox of capacity
\* 256 and the liveness flag set; afterwards the registry is the registry
\* of before plus that client, one entry larger, and no other client has
\* changed. A mailbox never holds more than its capacity.
C20_AddClientSucceeds ==
  /\ []((~panicked /\ NewString \in ClientIds) =>
          ENABLED AddClient(NewString, ClientSendCap))
  /\ [](\A id \in ClientIds : Len(send[id]) <= chanCap[id])
  /\ [][\A id \in ClientIds :
          (id \notin used /\ id \in used') =>
            /\ id \notin clients
            /\ send'[id] = <<>>
            /\ ~closed'[id]
            /\ chanCap'[id] = 256
            /\ isAlive'[id]
            /\ clients' = clients \cup {id}
            /\ Cardinality(clients') = Cardinality(clients) + 1
            /\ \A other \in ClientIds \ {id} :
                 /\ isAlive'[other] = isAlive[other]
                 /\ send'[other] = send[other]
                 /\ closed'[other] = closed[other]
                 /\ chanCap'[other] = chanCap[other]]_vars

\* the first client's mailbox holds 256 messages, a Send to it has timed
\* out, and a second client has just been added next to it, its mailbox
\* empty and open
C20_Witness ==
  /\ clients = {1, 2}
  /\ Len(send[1]) = 256
  /\ \E s \in Senders : sPc[s] = "done" /\ sRes[s] = "timeout"
  /\ send[2] = <<>>
  /\ chanCap[2] = 256
  /\ isAlive[2] /\ ~closed[2]

\* ---------------------------------------------------------------------
\* Properties seen by a reader (specification SpecPush)
\* ---------------------------------------------------------------------
\* the result of a receive on a closed and drained channel
ClosedSignal == [v |-> NoMsg, ok |-> FALSE, read |-> TRUE]

\* C21: RemoveClient(id) of a registered client clears the client's
\* liveness flag, closes its mailbox (once, without a panic) and deletes it
\* from the registry; the messages buffered in the mailbox stay, and the
\* entry, flag, mailbox and capacity of every other client are unchanged.
\* A receive from the removed client's mailbox never waits: it can always
\* be taken, and once the mailbox is drained it returns the closed signal
\* (ok = false).
C21_RemoveClientEffect ==
  /\ [][\A id \in ClientIds :
          (id \in clients /\ id \notin clients') =>
            /\ ~isAlive'[id]
            /\ ~closed[id] /\ closed'[id]
            /\ closeCount'[id] = closeCount[id] + 1
            /\ send'[id] = send[id]
            /\ clients' = clients \ {id}
            /\ ~panicked'
            /\ \A other \in ClientIds \ {id} :
                 /\ isAlive'[other] = isAlive[other]
                 /\ closed'[other] = closed[other]
                 /\ send'[other] = send[other]
                 /\ chanCap'[other] = chanCap[other]]_vars
  /\ [](\A id \in used \ clients : ~panicked => ENABLED Read(id))
  /\ [][\A id \in ClientIds :
          (id \in used \ clients /\ send[id] = <<>> /\ rcv'[id] # rcv[id]) =>
            rcv'[id] = ClosedSignal]_vars

\* the first client was removed with the second one registered, whose
\* mailbox still holds a message; the reader of the first client has
\* received the closed signal
C21_Witness ==
  /\ FirstClient \in used \ clients
  /\ rcv[FirstClient] = ClosedSignal
  /\ \E other \in clients : isAlive[other] /\ ~closed[other] /\ send[other] # <<>>

\* the step is the turn of Broadcast's range loop for client id
BroadcastVisits(id) == bcPc = "iter" /\ id \in bcTodo /\ id \notin bcTodo'

\* C22 as stated: a message broadcast to a registered client that has not
\* received yet is in the client's mailbox (provided the mailbox is not
\* full) and is the value the client's next receive obtains, that is the
\* message at the head of the mailbox.
C22_BroadcastThenRead ==
  [][\A id \in ClientIds :
       (BroadcastVisits(id) /\ ~rcv[id].read /\ Len(send[id]) < chanCap[id]) =>
         /\ send'[id] # <<>>
         /\ send'[id][Len(send'[id])] = bcMsg
         /\ Head(send'[id]) = bcMsg]_vars

\* C22, amended: a message broadcast to a registered client that has not
\* received yet is appended to the client's mailbox (provided the mailbox
\* is not full), behind the messages the mailbox holds; nothing but a
\* receive takes a message out of a mailbox, and a receive obtains the
\* message at the head. The message broadcast is therefore obtained by the
\* client's next receive when the mailbox was empty, and after the messages
\* enqueued before it otherwise.
C22_BroadcastThenReadInOrder ==
  /\ [][\A id \in ClientIds :
          (BroadcastVisits(id) /\ ~rcv[id].read /\ Len(send[id]) < chanCap[id]) =>
            /\ id \in clients
            /\ send'[id] = Append(send[id], bcMsg)
            /\ send[id] = <<>> => Head(send'[id]) = bcMsg]_vars
  /\ [][\A id \in ClientIds :
          \/ send'[id] = send[id]
          \/ id \notin used /\ send'[id] = <<>>
          \/ BroadcastVisits(id) /\ send'[id] = Append(send[id], bcMsg)
          \/ /\ send[id] # <<>>
             /\ send'[id] = Tail(send[id])
             /\ rcv'[id] = [v |-> Head(send[id]), ok |-> TRUE, read |-> TRUE]]_vars

\* two different messages were broadcast to the first client before its
\* first receive: both are in its mailbox, in the order broadcast
C22_Witness ==
  /\ FirstClient \in clients
  /\ ~rcv[FirstClient].read
  /\ bcPc = "idle"
  /\ send[FirstClient] = <<"a", "b">>

\* C24: once RemoveClient(id) has completed no Broadcast enqueues on the
\* mailbox of the removed client. A Broadcast visits the clients that are
\* in the registry when it starts, all of them and no others, so never a
\* client whose mailbox is closed; the mailbox of a removed client never
\* grows (a receive takes its buffered messages out, then obtains the
\* closed signal); every client the Broadcast visits gets the message
\* appended to its mailbox unless the mailbox is full, and no turn panics.
C24_NoBroadcastAfterRemove ==
  /\ [](bcTodo \subseteq clients)
  /\ [](\A id \in ClientIds : closed[id] => id \in used \ clients)
  /\ [][/\ (bcPc = "idle" /\ bcPc' = "iter") => bcTodo' = clients
        /\ (bcPc = "iter" /\ bcPc' = "idle") => bcTodo = {}
        /\ \A id \in ClientIds :
             /\ closed[id] =>
                  /\ closed'[id]
                  /\ send'[id] = send[id] \/ (send[id] # <<>> /\ send'[id] = Tail(send[id]))
                  /\ (send[id] = <<>> /\ rcv'[id] # rcv[id]) => rcv'[id] = ClosedSignal
             /\ BroadcastVisits(id) =>
                  /\ ~panicked'
                  /\ ~closed[id]
                  /\ IF Len(send[id]) < chanCap[id]
                       THEN send'[id] = Append(send[id], bcMsg)
                       ELSE send'[id] = send[id]]_vars

\* the first client received "a" and was removed; "b", broadcast after
\* the removal, has reached the second client only, and the first client's
\* reader has obtained the closed signal
C24_Witness ==
  /\ FirstClient \in used \ clients
  /\ send[FirstClient] = <<>>
  /\ rcv[FirstClient] = ClosedSignal
  /\ bcPc = "idle"
  /\ \E other \in clients : send[other] = <<"a", "b">>

\* ---------------------------------------------------------------------
\* Properties of Send (specification Spec)
\* ---------------------------------------------------------------------

\* C23: a Send that has found its client live ends with a definite outcome.
\* While it is in its select one of the two cases can be taken; when it
\* ends, either the mailbox had space, the message has been appended to it
\* once and Send returns success, or the mailbox was full, the timeout has
\* fired, Send returns the "timeout" error and no mailbox has changed; the
\* process goes on running.
C23_SendTerminates ==
  /\ [](\A s \in Senders :
          (sPc[s] = "sending" /\ ~panicked) =>
            ENABLED SendEnqueue(s) \/ ENABLED SendTimeout(s))
  /\ [][\A s \in Senders :
          (sPc[s] = "sending" /\ sPc'[s] = "done") =>
            /\ ~panicked'
            /\ \/ /\ sRes'[s] = "ok"
                  /\ Len(send[sId[s]]) < chanCap[sId[s]]
                  /\ send' = [send EXCEPT ![sId[s]] = Append(@, sMsg[s])]
               \/ /\ sRes'[s] = "timeout"
                  /\ Len(send[sId[s]]) = chanCap[sId[s]]
                  /\ send' = send]_vars

\* ---------------------------------------------------------------------
\* Properties of the envelope (specification SpecEnvelope)
\* ---------------------------------------------------------------------

\* C25: a request whose "jsonrpc" key is absent or is not the string "2.0"
\* is malformed: handling it (as the first message or in the loop)
\* executes no tool and writes no handler's result; if anything is
\* answered it is the error -32600.
C25_VersionChecked ==
  [][((pc = "start" /\ lastStep' = "init") \/ Handled) =>
       (lastMsg'.jsonrpc # Str("2.0") =>
          /\ execLog' = execLog
          /\ \A i \in DOMAIN lastOut' :
               /\ lastOut'[i].Result.nil
               /\ lastOut'[i].Error.code = -32600)]_vars

\* ---------------------------------------------------------------------
\* Properties of the event streams (specification SpecStream)
\* ---------------------------------------------------------------------

\* C26: every push client is removed once its connection has ended. A task
\* that has returned has removed its client: the client is out of the
\* registry, not live, its mailbox closed; the task's last step is the
\* RemoveClient of its own client. And a client whose connection has ended,
\* or whose task has met a write failure, is eventually out of the registry
\* with its mailbox closed.
C26_DisconnectedRemoved ==
  /\ [](\A id \in ClientIds :
          esPc[id] = "gone" => (id \notin clients /\ closed[id] /\ ~isAlive[id]))
  /\ [][\A id \in ClientIds :
          (esPc[id] # "gone" /\ esPc'[id] = "gone") =>
            (esPc[id] = "teardown" /\ id \in clients /\ clients' = clients \ {id})]_vars
  /\ \A id \in ClientIds :
       (disc[id] \/ esPc[id] = "teardown") ~> (id \notin clients /\ closed[id])

\* the first client's connection ended and its task has removed it, the
\* second client's task met a write failure and has removed it too
C26_Witness ==
  /\ disc[1] /\ esPc[1] = "gone" /\ 1 \notin clients /\ closed[1]
  /\ ~disc[2] /\ esPc[2] = "gone" /\ 2 \notin clients /\ closed[2]

\* ---------------------------------------------------------------------
\* Properties of the stdio loop's end (specification SpecLinger)
\* ---------------------------------------------------------------------

RestPaths == {"/", "/health", "/api/uuid", "/api/list"}

\* C30: each REST handler (/, /health, /api/uuid, /api/list) answers a
\* request whose method is not GET with status 405, executing no tool and
\* not listing the directory for it; it answers a GET with status 200
\* unless the tool it calls fails.
C30_MethodChecked ==
  \A i \in DOMAIN httpLog :
    LET e == httpLog[i] IN
      e.path \in RestPaths =>
        /\ e.method # "GET" => e.code = 405 /\ e.ran = <<>> /\ ~e.listed
        /\ e.method = "GET" /\ e.err = <<>> => e.code = 200

\* a POST to /api/uuid was refused and a GET to it ran the tool
C30_Witness ==
  /\ Len(httpLog) = 2
  /\ httpLog[1].path = "/api/uuid" /\ httpLog[1].method = "POST"
  /\ httpLog[1].code = 405 /\ httpLog[1].text = <<"Method not allowed">>
  /\ httpLog[2].path = "/api/uuid" /\ httpLog[2].method = "GET"
  /\ httpLog[2].code = 200 /\ httpLog[2].ran = <<"generate_uuid">>
  /\ httpLog[2].text = <<"uuid">>

\* ---------------------------------------------------------------------
\* Properties of Send racing RemoveClient (specification Spec)
\* ---------------------------------------------------------------------

\* C31: Send never enqueues onto a closed mailbox. Once a Send has found
\* its client live and stands before its enqueue, the client's mailbox is
\* not closed, and no send on a closed mailbox (a panic) ever happens.
C31_NoSendOnClosed ==
  /\ ~panicked
  /\ \A s \in Senders : sPc[s] = "sending" => ~closed[sId[s]]

\* ---------------------------------------------------------------------
\* Properties of Broadcast racing AddClient and RemoveClient
\* (specification Spec)
\* ---------------------------------------------------------------------

\* C32: Broadcast never enqueues onto a closed mailbox. While Broadcast
\* iterates (it holds the read lock), every client it still has to visit
\* has an open mailbox, whatever AddClient and RemoveClient calls are
\* attempted meanwhile: RemoveClient closes a mailbox under the write lock
\* only.
C32_BroadcastNeverOnClosed ==
  bcPc = "iter" => \A id \in bcTodo : ~closed[id] /\ id \in clients

\* Broadcast is about to enqueue for a client, another client's mailbox
\* was closed before it began, and RemoveClient and AddClient have to wait
C32_Witness ==
  /\ bcPc = "iter"
  /\ \E id \in bcTodo : isAlive[id] /\ Len(send[id]) < chanCap[id]
  /\ \E id \in used \ clients : closed[id]
  /\ \A id \in ClientIds : ~ENABLED RemoveClient(id) /\ ~ENABLED AddClient(id, MailboxCap)

\* ---------------------------------------------------------------------
\* Properties of one Broadcast (specification SpecPush)
\* ---------------------------------------------------------------------

\* C33: one Broadcast appends exactly one copy of its message to the
\* mailbox of every live client whose mailbox is not full, and changes
\* nothing else. Each turn of its loop visits one client not yet visited:
\* if the client is live and its mailbox has space the message is appended
\* to that mailbox, otherwise no mailbox changes; the registry, the
\* liveness flags and the closed marks never change during a Broadcast,
\* and no client is visited twice. A reader gets the messages of its
\* mailbox in the order they were enqueued: a receive yields the oldest
\* message and leaves the others in place.
C33_BroadcastFrame ==
  [][/\ bcPc = "iter" =>
          /\ bcSent \cap bcSkipped = {}
          /\ (bcSent \cup bcSkipped) \cap bcTodo = {}
          /\ bcSent \cup bcSkipped \cup bcTodo = clients
     /\ (bcPc = "iter" /\ bcTodo' # bcTodo) =>
          \E id \in bcTodo :
            /\ bcTodo' = bcTodo \ {id}
            /\ IF isAlive[id] /\ Len(send[id]) < chanCap[id]
                 THEN /\ send' = [send EXCEPT ![id] = Append(@, bcMsg)]
                      /\ bcSent' = bcSent \cup {id}
                 ELSE /\ send' = send
                      /\ bcSent' = bcSent
            /\ UNCHANGED <<used, clients, isAlive, closed, chanCap, rcv>>
     /\ bcPc' # bcPc => UNCHANGED <<used, clients, isAlive, closed, chanCap, send, rcv>>
     /\ \A id \in ClientIds :
          (rcv'[id] # rcv[id] /\ rcv'[id].ok) =>
            /\ rcv'[id].v = Head(send[id])
            /\ send' = [send EXCEPT ![id] = Tail(@)]
    ]_vars

\* a third Broadcast has ended its loop: the first client, which had read
\* the oldest of its two messages, got the new one behind the other; the
\* second client's mailbox was full and is as it was
C33_Witness ==
  /\ bcPc = "iter"
  /\ bcTodo = {}
  /\ bcMsg = "a"
  /\ bcSent = {FirstClient}
  /\ bcSkipped = {2}
  /\ rcv[FirstClient] = [v |-> "a", ok |-> TRUE, read |-> TRUE]
  /\ send[FirstClient] = <<"b", "a">>
  /\ send[2] = <<"a", "b">>

\* ---------------------------------------------------------------------
\* Properties of a Send that waits (specification Spec)
\* ---------------------------------------------------------------------
\* sender s is in its select and the mailbox it sends to is full
StalledSend(s) == sPc[s] = "sending" /\ Len(send[sId[s]]) = chanCap[sId[s]]

\* while sender s waits the other operations of the manager can be taken:
\* registration, removal and a new Broadcast when no Broadcast iterates, the
\* next turn of a Broadcast that iterates, a Send of another goroutine
OthersCanRun(s) ==
  /\ bcPc = "idle" =>
       /\ \A id \in ClientIds : ENABLED RemoveClient(id)
       /\ NewString \in ClientIds => ENABLED AddClient(NewString, MailboxCap)
       /\ \A m \in Msgs : ENABLED BroadcastBegin(m)
  /\ bcPc = "iter" =>
       (\E id \in ClientIds : ENABLED BroadcastStep(id)) \/ ENABLED BroadcastEnd
  /\ \A t \in Senders \ {s} :
       sPc[t] = "idle" => \A id \in ClientIds, m \in Msgs : ENABLED SendLookup(t, id, m)

\* C34: a Send that waits on a full mailbox holds no registry lock. While
\* it waits, AddClient, RemoveClient, Broadcast and the Sends of other
\* goroutines can be taken and complete, and whichever of them is taken
\* the process keeps running: the stalled client neither blocks the
\* delivery to the others nor makes it fail.
C34_StalledSendHarmless ==
  /\ [](\A s \in Senders : (StalledSend(s) /\ ~panicked) => OthersCanRun(s))
  /\ [][\A s \in Senders : StalledSend(s) => ~panicked']_vars

\* ---------------------------------------------------------------------
\* Properties of tools/call without parameters (specification SpecRPC)
\* ---------------------------------------------------------------------

\* C35: a tools/call message whose params is missing or is not an object
\* is answered with an error of code -32602, and HandleToolsCall is not
\* invoked. When the loop handles such a message it hands sendResponse one
\* response, with the message's id, no result and the error -32602
\* "Invalid params" of handleMessage itself (HandleToolsCall would say
\* "Invalid params: Missing tool name"), and no tool is executed.
C35_ParamsChecked ==
  [][(/\ pc = "decode"
      /\ lastStep' = "handle"
      /\ lastMsg'.method = Str("tools/call")
      /\ lastMsg'.params.k # "object") =>
       /\ Len(lastOut') = 1
       /\ lastOut'[1].id = IdOf(lastMsg')
       /\ lastOut'[1].Result.nil
       /\ ~lastOut'[1].Error.nil
       /\ lastOut'[1].Error.code = -32602
       /\ lastOut'[1].Error.message = <<"Invalid params">>
       /\ execLog' = execLog
    ]_vars

\* after a tools/call that ran the tool, a tools/call whose params is a
\* string has been refused
C35_Witness ==
  /\ nLoop = 2
  /\ lastStep = "handle"
  /\ lastMsg.method = Str("tools/call")
  /\ lastMsg.params = BadParams
  /\ execLog = <<"generate_uuid">>
  /\ Len(lastOut) = 1
  /\ lastOut[1].Error.code = -32602

\* ---------------------------------------------------------------------
\* Properties of the frames of a connection (specification SpecConn)
\* ---------------------------------------------------------------------

\* C36: over WebSocket a notification produces no outbound frame. Every
\* frame the handler has written carries a response: a request for which
\* Process decides that no response is due leaves the outbound frames as
\* they were.
C36_SilenceForNotifications ==
  \A i \in DOMAIN wsOut : wsOut[i].frame # <<>>

\* ---------------------------------------------------------------------
\* Properties of Server.shutdown (specification SpecShutdown)
\* ---------------------------------------------------------------------
\* the elements of q that are in set, in the order of q
Restrict(q, set) == SelectSeq(q, LAMBDA x : x \in set)

\* C37: Server.shutdown stops all running servers. When it has returned it
\* has called Stop once on every server the Server was built with, in the
\* order HTTP, streaming HTTP, WebSocket, also after a Stop that returned an
\* error, and on no other; the error it returns is non-nil if and only if
\* at least one Stop failed; it is nil when no server was ever started.
C37_ShutdownStopsAll ==
  sdPc = "returned" =>
    /\ sdCalled = Restrict(StopOrder, sdPresent)
    /\ sdErr # NoErr <=> sdFailed # {}
    /\ sdStarted = {} => sdErr = NoErr

\* the three servers ran; the Stop of the first and of the last failed,
\* the one between them was called and succeeded
C37_Witness ==
  /\ sdPc = "returned"
  /\ sdPresent = OtherServers
  /\ sdCalled = StopOrder
  /\ sdFailed = {"http", "websocket"}
  /\ sdErr = <<"failed to stop HTTP server: ", "context deadline exceeded", "; ",
               "failed to stop WebSocket server: ", "context deadline exceeded">>

\* ---------------------------------------------------------------------
\* Properties of the origin check (specification SpecOrigin)
\* ---------------------------------------------------------------------
\* the request carries an Origin header with a value
HasOrigin(h) == h.present /\ h.v # ""

IsArray(v) ==
  \/ v.k = "slice" /\ ~v.isnil
  \/ v.k \in {"bytes", "string"} /\ v.text = "array"

\* v is a JSON object: a map, a struct, or a text that holds one
IsObject(v) ==
  \/ v.k \in {"map", "struct"}
  \/ v.k = "pointer" /\ ~v.isnil
  \/ v.k \in {"bytes", "string"} /\ v.text = "object"

\* C39: normalizeToolResult always returns a non-nil map on success. When
\* it returns no error the map is not nil; nil gives an empty map; a map
\* without the key structuredContent is returned as it is; a map with the
\* key gives the value under it when that is a map and {"items": value}
\* otherwise; an array gives {"items": array}; a value that is neither an
\* object nor an array gives {"value": the JSON text of the value}.
C39_NormalizedShape ==
  \A i \in DOMAIN normLog :
    LET v == normLog[i].in
        r == normLog[i].out IN
      ~r.err =>
        /\ ~r.nilmap
        /\ v.k = "nil" => r.shape = "empty"
        /\ (v.k = "map" /\ v.sc = "absent") => r.shape = "same"
        /\ (v.k = "map" /\ v.sc \in {"map", "nilmap"}) => r.shape = "inner"
        /\ (v.k = "map" /\ v.sc \in {"null", "slice", "string"}) => r.shape = "items"
        /\ IsArray(v) => r.shape = "items"
        /\ (v.k # "nil" /\ ~IsArray(v) /\ ~IsObject(v)) =>
             r.shape = "value" /\ r.text = "json of v"

====
